---------------------------- MODULE Spec2Model ----------------------------
(***************************************************************************)
(* Model of the finance-analyzer ingestion pipeline:                       *)
(*   - process_csv_file (src/lambda_function.py) as a pure operator over   *)
(*     CSV files, with Python strings modelled as sequences of characters; *)
(*   - lambda_handler and archive_file (src/lambda_function.py) as a state *)
(*     machine over the two S3 buckets, one atomic step per S3 call, with  *)
(*     two handler instances that may interleave, fail at any call and     *)
(*     crash at any step;                                                  *)
(*   - _categorize_transaction (src/pdf_processor_wip.py) as a pure        *)
(*     operator over descriptions;                                         *)
(*   - main and analyze_data (src/app.py) as a state machine over the      *)
(*     Streamlit session state, one step per rerun, with amounts in cents; *)
(*   - wait_for_processing (src/app.py) as a loop over a clock in seconds, *)
(*     one step per statement, while the processed file may appear;        *)
(*   - get_processed_data and process_transactions (src/app.py) as         *)
(*     operators over the frame read from the processed file.              *)
(***************************************************************************)
EXTENDS Integers, Sequences, FiniteSets, TLC

(***************************************************************************)
(* Python strings and values                                               *)
(***************************************************************************)

\* Python's None.  Strings are sequences of one-character strings, so a
\* one-element sequence holding this marker is no string.
None == <<"<None>">>

\* bool(v) for v a str or None: None and '' are falsy.
Truthy(v) == v # None /\ v # <<>>

\* Python's  a or b.
Or(a, b) == IF Truthy(a) THEN a ELSE b

\* dict.get(name, default)
Get(row, name, default) == IF name \in DOMAIN row THEN row[name] ELSE default

\* str.replace(ch, '')
Remove(s, ch) == SelectSeq(s, LAMBDA c : c # ch)

IsSpace(c) == c \in {" ", "\t"}

RECURSIVE LStrip(_)
LStrip(s) == IF s # <<>> /\ IsSpace(Head(s)) THEN LStrip(Tail(s)) ELSE s

RECURSIVE RStrip(_)
RStrip(s) ==
    IF s # <<>> /\ IsSpace(s[Len(s)]) THEN RStrip(SubSeq(s, 1, Len(s) - 1)) ELSE s

\* str.strip()
Strip(s) == RStrip(LStrip(s))

Digits == <<"0", "1", "2", "3", "4", "5", "6", "7", "8", "9">>

IsDigit(c) == \E d \in 1..10 : Digits[d] = c

DigitVal(c) == (CHOOSE d \in 1..10 : Digits[d] = c) - 1

RECURSIVE DigitsVal(_)
DigitsVal(s) ==
    IF s = <<>> THEN 0 ELSE 10 * DigitsVal(SubSeq(s, 1, Len(s) - 1)) + DigitVal(s[Len(s)])

AllDigits(s) == \A k \in 1..Len(s) : IsDigit(s[k])

\* Position of the first '.' in s, or 0.
DotPos(s) == IF \E k \in 1..Len(s) : s[k] = "."
             THEN CHOOSE k \in 1..Len(s) : s[k] = "." /\ \A j \in 1..(k - 1) : s[j] # "."
             ELSE 0

\* The unsigned decimal literals float() accepts: digits, with at most one
\* '.', and at least one digit.  (Exponents, inf, nan and '_' are outside the
\* strings the model draws.)
IsDecimal(u) ==
    LET p == DotPos(u)
        ip == IF p = 0 THEN u ELSE SubSeq(u, 1, p - 1)
        fp == IF p = 0 THEN <<>> ELSE SubSeq(u, p + 1, Len(u))
    IN  /\ AllDigits(ip)
        /\ AllDigits(fp)
        /\ Len(ip) + Len(fp) > 0

\* float(s) raises ValueError exactly when this is FALSE.
FloatOk(s) ==
    LET t == Strip(s)
        u == IF t # <<>> /\ Head(t) \in {"+", "-"} THEN Tail(t) ELSE t
    IN  IsDecimal(u)

\* float(s) as sign and magnitude in cents (the model draws literals with at
\* most two decimals, which are exact in cents); the sign is kept apart
\* because a float has a negative zero.
FloatVal(s) ==
    LET t == Strip(s)
        neg == t # <<>> /\ Head(t) = "-"
        u == IF t # <<>> /\ Head(t) \in {"+", "-"} THEN Tail(t) ELSE t
        p == DotPos(u)
        ip == IF p = 0 THEN u ELSE SubSeq(u, 1, p - 1)
        fp == IF p = 0 THEN <<>> ELSE SubSeq(u, p + 1, Len(u))
        f2 == SubSeq(fp \o <<"0", "0">>, 1, 2)
    IN  [neg |-> neg, mag |-> 100 * DigitsVal(ip) + DigitsVal(f2)]

\* Unary minus that leaves the sign as it is.
NegateKeepsSign(v) == v

\* Unary minus on a float.
Negate(v) == [neg |-> ~v.neg, mag |-> v.mag]

RECURSIVE NatStr(_)
NatStr(n) == IF n < 10 THEN <<Digits[n + 1]>>
             ELSE NatStr(n \div 10) \o <<Digits[(n % 10) + 1]>>

\* f"{amt:.2f}"
Format2f(v) ==
    (IF v.neg THEN <<"-">> ELSE <<>>)
        \o NatStr(v.mag \div 100)
        \o <<".", Digits[((v.mag % 100) \div 10) + 1], Digits[(v.mag % 10) + 1]>>

(***************************************************************************)
(* csv.DictReader / csv.DictWriter                                         *)
(***************************************************************************)

\* A CSV file is [header |-> sequence of column names,
\*                rows   |-> sequence of rows, each a sequence of cells].
\* DictReader maps each column name to the row's cell in that column and to
\* None when the row is too short (restval); extra cells are not read by name.
DictRow(header, cells) ==
    [n \in {header[k] : k \in 1..Len(header)} |->
        LET k == CHOOSE j \in 1..Len(header) :
                    header[j] = n /\ \A l \in (j + 1)..Len(header) : header[l] # n
        IN  IF k <= Len(cells) THEN cells[k] ELSE None]

\* DictReader skips rows without any cell (blank lines).
DictReader(file) ==
    LET kept == SelectSeq(file.rows, LAMBDA cells : cells # <<>>)
    IN  [k \in 1..Len(kept) |-> DictRow(file.header, kept[k])]

\* DictWriter writes None as the empty string.
CsvCell(v) == IF v = None THEN <<>> ELSE v


(***************************************************************************)
(* process_csv_file                                                        *)
(***************************************************************************)

\* fieldnames of the DictWriter; the header row it writes first.
ProcessedHeader == <<"date", "description", "amount", "category">>

\* The columns one row of the loop reads, alias by alias.
RowDate(row)     == Or(Get(row, "Date", None), Get(row, "date", None))
RowDesc(row)     == Or(Get(row, "Description", None), Get(row, "description", <<>>))
RowDebit(row)    == Or(Get(row, "Debit (-)", None), Get(row, "Debit", None))
RowCredit(row)   == Or(Get(row, "Credit (+)", None), Get(row, "Credit", None))
RowCategory(row) == Or(Get(row, "Category", None), Get(row, "category", <<>>))

\* The amount branch with the credit column tried before the debit column.
RowAmountCreditFirst(row) ==
    LET debit == Or(Get(row, "Debit (-)", None), Get(row, "Debit", None))
        credit == Or(Get(row, "Credit (+)", None), Get(row, "Credit", None))
    IN  IF Truthy(credit) /\ Truthy(Strip(credit))
        THEN IF FloatOk(Remove(credit, ","))
             THEN [ok |-> TRUE, amt |-> FloatVal(Remove(credit, ",")),
                   reason |-> "none"]
             ELSE [ok |-> FALSE, amt |-> [neg |-> FALSE, mag |-> 0],
                   reason |-> "invalid amount"]
        ELSE IF Truthy(debit) /\ Truthy(Strip(debit))
        THEN IF FloatOk(Remove(debit, ","))
             THEN [ok |-> TRUE, amt |-> Negate(FloatVal(Remove(debit, ","))),
                   reason |-> "none"]
             ELSE [ok |-> FALSE, amt |-> [neg |-> FALSE, mag |-> 0],
                   reason |-> "invalid amount"]
        ELSE [ok |-> FALSE, amt |-> [neg |-> FALSE, mag |-> 0],
              reason |-> "no amount"]

\* The amount branch of one row: which column is used, and whether float()
\* of it (after removing ',') raises ValueError.
RowAmount(row) ==
    LET debit == RowDebit(row)
        credit == RowCredit(row)
    IN  IF Truthy(debit) /\ Truthy(Strip(debit))
        THEN IF FloatOk(Remove(debit, ","))
             THEN [ok |-> TRUE, amt |-> Negate(FloatVal(Remove(debit, ","))),
                   reason |-> "none"]
             ELSE [ok |-> FALSE, amt |-> [neg |-> FALSE, mag |-> 0],
                   reason |-> "invalid amount"]
        ELSE IF Truthy(credit) /\ Truthy(Strip(credit))
        THEN IF FloatOk(Remove(credit, ","))
             THEN [ok |-> TRUE, amt |-> FloatVal(Remove(credit, ",")),
                   reason |-> "none"]
             ELSE [ok |-> FALSE, amt |-> [neg |-> FALSE, mag |-> 0],
                   reason |-> "invalid amount"]
        ELSE [ok |-> FALSE, amt |-> [neg |-> FALSE, mag |-> 0],
              reason |-> "no amount"]

\* One iteration of the loop on row number idx (1-based, after DictReader):
\* the row is skipped with a logged warning, or written.
ProcessRow(acc, row, idx) ==
    LET a == RowAmount(row)
    IN  IF ~Truthy(RowDate(row))
        THEN [acc EXCEPT !.warnings = Append(@, [row |-> idx, reason |-> "no date"])]
        ELSE IF ~a.ok
        THEN [acc EXCEPT !.warnings = Append(@, [row |-> idx, reason |-> a.reason])]
        ELSE [acc EXCEPT
                !.written = Append(@, [date |-> RowDate(row),
                                       description |-> CsvCell(RowDesc(row)),
                                       amount |-> Format2f(a.amt),
                                       category |-> CsvCell(RowCategory(row))]),
                !.rows_processed = @ + 1]

RECURSIVE ProcessRows(_, _, _)
ProcessRows(acc, rows, idx) ==
    IF idx > Len(rows) THEN acc
    ELSE ProcessRows(ProcessRow(acc, rows[idx], idx), rows, idx + 1)

\* process_csv_file(raw_file_path, processed_file_path): `written` is the
\* processed file (below its header), `rows_processed` the value returned and
\* `warnings` what the logger received; nothing but rows_processed is returned.
process_csv_file(file) ==
    ProcessRows([written |-> <<>>, rows_processed |-> 0, warnings |-> <<>>],
                DictReader(file), 1)


(***************************************************************************)
(* Sample inputs                                                           *)
(***************************************************************************)

\* Longest file, in rows, the CSV specification draws.
MaxRows == 3

\* Header rows: the one of test_lambda.py, the lower-case aliases, and a file
\* with a combined amount column only.
HeaderBank  == <<"Date", "Description", "Debit (-)", "Credit (+)", "Category">>
HeaderPlain == <<"date", "description", "Debit", "Credit", "category">>
HeaderAmount == <<"date", "description", "amount", "category">>
\* A file with debit and credit columns and a combined amount column.
HeaderAll == <<"date", "description", "Debit", "Credit", "category", "amount">>

SampleHeaders == {HeaderBank, HeaderPlain, HeaderAmount, HeaderAll}

DateIso     == <<"2", "0", "2", "4", "-", "0", "1", "-", "0", "5">>
DateUs      == <<"0", "1", "/", "1", "5", "/", "2", "0", "2", "4">>
DateGarbage == <<"1", "3", "/", "4", "5", "/", "2", "4">>

DescShell == <<"S", "h", "e", "l", "l", " ", "G", "a", "s">>
CatFood   == <<"F", "o", "o", "d">>

\* Rows as sequences of cells, in the column order date, description,
\* debit, credit, category.
RowDebit50      == <<DateIso, DescShell, <<"5", "0", ".", "0", "0">>, <<>>, CatFood>>
RowCredit20     == <<DateUs, DescShell, <<>>, <<"2", "0", ".", "0", "0">>, <<>>>>
RowThousands    == <<DateIso, <<>>, <<"1", ",", "2", "3", "4", ".", "5", "0">>, <<>>, CatFood>>
RowDollar       == <<DateIso, DescShell, <<"$", "1", ",", "2", "3", "4", ".", "5", "0">>, <<>>, CatFood>>
RowNoDate       == <<<<>>, DescShell, <<"5", "0", ".", "0", "0">>, <<>>, CatFood>>
RowNoAmount     == <<DateIso, DescShell, <<>>, <<" ">>, CatFood>>
RowBadAmount    == <<DateIso, DescShell, <<>>, <<"a", "b", "c">>, CatFood>>
RowBadDate      == <<DateGarbage, DescShell, <<"7">>, <<>>, CatFood>>
RowBoth         == <<DateIso, DescShell, <<"5", "0", ".", "0", "0">>, <<"a", "b", "c">>, CatFood>>
RowBothNumeric  == <<DateIso, DescShell, <<"7">>, <<"2", "0", ".", "0", "0">>, CatFood>>
RowShort        == <<DateIso, DescShell>>
\* A row with a sixth cell, read under HeaderAll as the combined amount.
RowAmountToo    == <<DateIso, DescShell, <<"5", "0", ".", "0", "0">>, <<>>, CatFood,
                     <<"-", "7", "5", ".", "2", "5">>>>
RowBlank        == <<>>

SampleRows == {RowDebit50, RowCredit20, RowThousands, RowDollar, RowNoDate,
               RowNoAmount, RowBadAmount, RowBadDate, RowBoth, RowBothNumeric, RowShort,
               RowBlank,
               RowAmountToo}

SeqsUpTo(S, n) == UNION {[1..k -> S] : k \in 0..n}

SampleCsvFiles ==
    {[header |-> h, rows |-> r] : h \in SampleHeaders, r \in SeqsUpTo(SampleRows, MaxRows)}


(***************************************************************************)
(* BankStatementProcessor._categorize_transaction                          *)
(***************************************************************************)

UpperCase == <<"A", "B", "C", "D", "E", "F", "G", "H", "I", "J", "K", "L", "M", "N", "O", "P", "Q", "R", "S", "T", "U", "V", "W", "X", "Y", "Z">>
LowerCase == <<"a", "b", "c", "d", "e", "f", "g", "h", "i", "j", "k", "l", "m", "n", "o", "p", "q", "r", "s", "t", "u", "v", "w", "x", "y", "z">>

\* str.lower(), character by character.
LowerChar(c) ==
    IF \E i \in 1..Len(UpperCase) : UpperCase[i] = c
    THEN LowerCase[CHOOSE i \in 1..Len(UpperCase) : UpperCase[i] = c]
    ELSE c

Lower(s) == [k \in 1..Len(s) |-> LowerChar(s[k])]

\* `keyword in description`: keyword occurs as a substring.
Contains(s, keyword) ==
    \E p \in 0..(Len(s) - Len(keyword)) : SubSeq(s, p + 1, p + Len(keyword)) = keyword

\* The category labels, as the strings of self.categories.
FoodAndDining == <<"F", "o", "o", "d", " ", "&", " ", "D", "i", "n", "i", "n", "g">>
Transportation == <<"T", "r", "a", "n", "s", "p", "o", "r", "t", "a", "t", "i", "o", "n">>
Shopping == <<"S", "h", "o", "p", "p", "i", "n", "g">>
Entertainment == <<"E", "n", "t", "e", "r", "t", "a", "i", "n", "m", "e", "n", "t">>
Utilities == <<"U", "t", "i", "l", "i", "t", "i", "e", "s">>
Housing == <<"H", "o", "u", "s", "i", "n", "g">>
Healthcare == <<"H", "e", "a", "l", "t", "h", "c", "a", "r", "e">>
Income == <<"I", "n", "c", "o", "m", "e">>
\* The label returned when no keyword matches.
Other == <<"O", "t", "h", "e", "r">>

\* Keywords.
Kw_restaurant == <<"r", "e", "s", "t", "a", "u", "r", "a", "n", "t">>
Kw_food == <<"f", "o", "o", "d">>
Kw_grocery == <<"g", "r", "o", "c", "e", "r", "y">>
Kw_cafe == <<"c", "a", "f", "e">>
Kw_coffee == <<"c", "o", "f", "f", "e", "e">>
Kw_doordash == <<"d", "o", "o", "r", "d", "a", "s", "h">>
Kw_uber_eats == <<"u", "b", "e", "r", " ", "e", "a", "t", "s">>
Kw_gas == <<"g", "a", "s">>
Kw_uber == <<"u", "b", "e", "r">>
Kw_lyft == <<"l", "y", "f", "t">>
Kw_transit == <<"t", "r", "a", "n", "s", "i", "t">>
Kw_parking == <<"p", "a", "r", "k", "i", "n", "g">>
Kw_transport == <<"t", "r", "a", "n", "s", "p", "o", "r", "t">>
Kw_amazon == <<"a", "m", "a", "z", "o", "n">>
Kw_target == <<"t", "a", "r", "g", "e", "t">>
Kw_walmart == <<"w", "a", "l", "m", "a", "r", "t">>
Kw_store == <<"s", "t", "o", "r", "e">>
Kw_shop == <<"s", "h", "o", "p">>
Kw_netflix == <<"n", "e", "t", "f", "l", "i", "x">>
Kw_spotify == <<"s", "p", "o", "t", "i", "f", "y">>
Kw_movie == <<"m", "o", "v", "i", "e">>
Kw_entertainment == <<"e", "n", "t", "e", "r", "t", "a", "i", "n", "m", "e", "n", "t">>
Kw_electric == <<"e", "l", "e", "c", "t", "r", "i", "c">>
Kw_water == <<"w", "a", "t", "e", "r">>
Kw_internet == <<"i", "n", "t", "e", "r", "n", "e", "t">>
Kw_phone == <<"p", "h", "o", "n", "e">>
Kw_utility == <<"u", "t", "i", "l", "i", "t", "y">>
Kw_rent == <<"r", "e", "n", "t">>
Kw_mortgage == <<"m", "o", "r", "t", "g", "a", "g", "e">>
Kw_home == <<"h", "o", "m", "e">>
Kw_apartment == <<"a", "p", "a", "r", "t", "m", "e", "n", "t">>
Kw_housing == <<"h", "o", "u", "s", "i", "n", "g">>
Kw_medical == <<"m", "e", "d", "i", "c", "a", "l">>
Kw_doctor == <<"d", "o", "c", "t", "o", "r">>
Kw_pharmacy == <<"p", "h", "a", "r", "m", "a", "c", "y">>
Kw_health == <<"h", "e", "a", "l", "t", "h">>
Kw_salary == <<"s", "a", "l", "a", "r", "y">>
Kw_deposit == <<"d", "e", "p", "o", "s", "i", "t">>
Kw_payroll == <<"p", "a", "y", "r", "o", "l", "l">>
Kw_direct_dep == <<"d", "i", "r", "e", "c", "t", " ", "d", "e", "p">>
Kw_interest == <<"i", "n", "t", "e", "r", "e", "s", "t">>

\* self.categories: the rule table, in the order the dict literal lists it
\* (a dict iterates in insertion order).
categories ==
    << [category |-> FoodAndDining,
        keywords |-> <<Kw_restaurant, Kw_food, Kw_grocery, Kw_cafe, Kw_coffee, Kw_doordash, Kw_uber_eats>>],
       [category |-> Transportation,
        keywords |-> <<Kw_gas, Kw_uber, Kw_lyft, Kw_transit, Kw_parking, Kw_transport>>],
       [category |-> Shopping,
        keywords |-> <<Kw_amazon, Kw_target, Kw_walmart, Kw_store, Kw_shop>>],
       [category |-> Entertainment,
        keywords |-> <<Kw_netflix, Kw_spotify, Kw_movie, Kw_entertainment>>],
       [category |-> Utilities,
        keywords |-> <<Kw_electric, Kw_water, Kw_gas, Kw_internet, Kw_phone, Kw_utility>>],
       [category |-> Housing,
        keywords |-> <<Kw_rent, Kw_mortgage, Kw_home, Kw_apartment, Kw_housing>>],
       [category |-> Healthcare,
        keywords |-> <<Kw_medical, Kw_doctor, Kw_pharmacy, Kw_health>>],
       [category |-> Income,
        keywords |-> <<Kw_salary, Kw_deposit, Kw_payroll, Kw_direct_dep, Kw_interest>>] >>

\* any(keyword in description for keyword in keywords)
AnyKeyword(description, keywords) ==
    \E j \in 1..Len(keywords) : Contains(description, keywords[j])

\* The loop over the rule table that returns the last matching category.
RECURSIVE CategorizeLastFrom(_, _)
CategorizeLastFrom(description, i) ==
    IF i < 1 THEN Other
    ELSE IF AnyKeyword(description, categories[i].keywords)
         THEN categories[i].category
         ELSE CategorizeLastFrom(description, i - 1)

categorize_last_match(description) ==
    CategorizeLastFrom(Lower(description), Len(categories))

\* A categorizer whose fall-through label is the empty string.
categorize_or_empty(description) ==
    LET d == Lower(description)
    IN  IF \E i \in 1..Len(categories) : AnyKeyword(d, categories[i].keywords)
        THEN categories[CHOOSE i \in 1..Len(categories) :
                            /\ AnyKeyword(d, categories[i].keywords)
                            /\ \A h \in 1..(i - 1) : ~AnyKeyword(d, categories[h].keywords)].category
        ELSE <<>>

\* The loop over the rule table from entry i on: return at the first entry
\* with a matching keyword, 'Other' after the last.
RECURSIVE CategorizeFrom(_, _)
CategorizeFrom(description, i) ==
    IF i > Len(categories) THEN Other
    ELSE IF AnyKeyword(description, categories[i].keywords)
         THEN categories[i].category
         ELSE CategorizeFrom(description, i + 1)

\* _categorize_transaction(self, description)
categorize_transaction(description) == CategorizeFrom(Lower(description), 1)

\* Descriptions: up to MaxWords words of the pool, separated by blanks.
MaxWords == 2

Words == {<<"S", "h", "e", "l", "l">>,
          <<"G", "a", "s">>,
          <<"U", "B", "E", "R">>,
          <<"E", "a", "t", "s">>,
          <<"W", "a", "t", "e", "r">>,
          <<"B", "i", "s", "h", "o", "p">>,
          <<"x", "y", "z">>,
          <<"R", "e", "n", "t">>,
          <<"P", "a", "y", "r", "o", "l", "l">>}

RECURSIVE JoinWords(_)
JoinWords(ws) ==
    IF ws = <<>> THEN <<>>
    ELSE IF Len(ws) = 1 THEN ws[1]
    ELSE ws[1] \o <<" ">> \o JoinWords(Tail(ws))

SampleDescriptions == {JoinWords(ws) : ws \in SeqsUpTo(Words, MaxWords)}


(***************************************************************************)
(* app.py: analyze_data                                                    *)
(***************************************************************************)

\* A processed frame (st.session_state.processed_data) is a sequence of rows
\* [month, amount, category]: month is date.dt.to_period('M') as a month
\* number, amount is in cents, category is the category string.  Declared
\* incomes are in whole dollars.

\* BENCHMARKS: income bracket -> category -> percentage.
BENCHMARKS ==
    [low_income |->
        [Housing |-> 35, Food |-> 15, Transportation |-> 15, Entertainment |-> 5,
         Shopping |-> 10, Utilities |-> 10, Healthcare |-> 5, Other |-> 5],
     medium_income |->
        [Housing |-> 30, Food |-> 12, Transportation |-> 12, Entertainment |-> 8,
         Shopping |-> 15, Utilities |-> 8, Healthcare |-> 8, Other |-> 7],
     high_income |->
        [Housing |-> 25, Food |-> 10, Transportation |-> 10, Entertainment |-> 12,
         Shopping |-> 18, Utilities |-> 7, Healthcare |-> 10, Other |-> 8]]

\* No benchmark chosen: analyze_data did not get to the Benchmark tab.
NoBenchmark == [absent |-> 0]

\* The if/elif/else of the Benchmark tab with its last two branches in each
\* other's place.
SelectBenchmarkSwapped(monthly_income) ==
    IF monthly_income < 50000 THEN BENCHMARKS.low_income
    ELSE IF monthly_income < 100000 THEN BENCHMARKS.high_income
    ELSE BENCHMARKS.medium_income

\* The if/elif of the Benchmark tab without its else branch.
SelectBenchmarkNoElse(monthly_income) ==
    IF monthly_income < 50000 THEN BENCHMARKS.low_income
    ELSE IF monthly_income < 100000 THEN BENCHMARKS.medium_income
    ELSE NoBenchmark

\* The benchmark the Benchmark tab picks for the declared monthly income.
SelectBenchmark(monthly_income) ==
    IF monthly_income < 50000 THEN BENCHMARKS.low_income
    ELSE IF monthly_income < 100000 THEN BENCHMARKS.medium_income
    ELSE BENCHMARKS.high_income

Abs(x) == IF x < 0 THEN -x ELSE x

\* df['amount'].sum()
RECURSIVE SumAmounts(_)
SumAmounts(df) ==
    IF df = <<>> THEN 0 ELSE Head(df).amount + SumAmounts(Tail(df))

\* df[df['amount'] > 0]['amount'].sum()
total_income(df) ==
    LET keep(t) == t.amount > 0 IN SumAmounts(SelectSeq(df, keep))

\* abs(df[df['amount'] < 0]['amount'].sum())
total_expenses(df) ==
    LET keep(t) == t.amount < 0 IN Abs(SumAmounts(SelectSeq(df, keep)))

\* df['date'].dt.to_period('M').nunique()
months_count(df) == Cardinality({df[k].month : k \in 1..Len(df)})

\* groupby('category') without the filter on negative amounts.
category_spending_unfiltered(df) ==
    [c \in {df[k].category : k \in 1..Len(df)} |->
        LET keep(t) == t.category = c IN Abs(SumAmounts(SelectSeq(df, keep)))]

\* df[df['amount'] < 0].groupby('category')['amount'].sum().abs(): one entry
\* per category that has an expense.
category_spending(df) ==
    [c \in {df[k].category : k \in {j \in 1..Len(df) : df[j].amount < 0}} |->
        LET keep(t) == t.amount < 0 /\ t.category = c
        IN  Abs(SumAmounts(SelectSeq(df, keep)))]

\* How far analyze_data gets on df.  With rows of at least one month it runs
\* through all its tabs.  On a frame without rows months_count is 0 and the
\* outcome depends on pandas: the division of the Overview tab may raise,
\* the column assignment of the Trend tab may raise, or every tab is drawn
\* with NaN figures.
Outcomes(df) ==
    IF months_count(df) = 0 THEN {"overview", "trend", "done"} ELSE {"done"}

\* A float64 quotient x / y: numpy gives inf, -inf or nan for a zero divisor
\* (with a warning) where Python's own floats would raise.
FloatDiv(x, y) ==
    IF y # 0 THEN [kind |-> "num", num |-> x, den |-> y]
    ELSE IF x > 0 THEN [kind |-> "inf", num |-> 1, den |-> 0]
    ELSE IF x < 0 THEN [kind |-> "-inf", num |-> -1, den |-> 0]
    ELSE [kind |-> "nan", num |-> 0, den |-> 0]

One  == [kind |-> "num", num |-> 1, den |-> 1]
Zero == [kind |-> "num", num |-> 0, den |-> 1]

\* q < 1.0 and q > 0.0 on such quotients (den is never negative); every
\* comparison with nan is False.
LessThanOne(q) ==
    \/ q.kind = "-inf"
    \/ q.kind = "num" /\ q.num < q.den
GreaterThanZero(q) ==
    \/ q.kind = "inf"
    \/ q.kind = "num" /\ q.num > 0

\* min(1.0, q) and max(0.0, q): the built-ins return their first argument
\* unless the second compares smaller (greater).
MinOne(q)  == IF LessThanOne(q) THEN q ELSE One
MaxZero(q) == IF GreaterThanZero(q) THEN q ELSE Zero

\* progress = max(0.0, min(1.0, current_savings / goal)), the savings in
\* cents and the goal in dollars.
Progress(current_savings, goal) == MaxZero(MinOne(FloatDiv(current_savings, 100 * goal)))

\* The elements of a finite set as a list.  The order of the rows of a
\* DataFrame built from it plays no part in what follows.
RECURSIVE ListOf(_)
ListOf(S) ==
    IF S = {} THEN <<>>
    ELSE LET x == CHOOSE x \in S : TRUE IN <<x>> \o ListOf(S \ {x})

\* user_pct: one row per category of category_spending, with its share of
\* the total expense in percent.
UserPct(spending, total) ==
    LET cats == ListOf(DOMAIN spending)
    IN  [i \in 1..Len(cats) |->
            [category |-> cats[i], You |-> FloatDiv(100 * spending[cats[i]], total)]]

\* bench_pct: one row per key of the benchmark dict.
BenchPct(benchmark) ==
    LET cats == ListOf(DOMAIN benchmark)
    IN  [i \in 1..Len(cats) |-> [category |-> cats[i], Benchmark |-> benchmark[cats[i]]]]

\* The rows of right whose category no row of left has, with You filled
\* with 0.
RightOnly(left, right) ==
    LET unmatched(r) == \A i \in 1..Len(left) : left[i].category # r.category
        rows == SelectSeq(right, unmatched)
    IN  [j \in 1..Len(rows) |->
            [category |-> rows[j].category, You |-> Zero, Benchmark |-> rows[j].Benchmark]]

\* The rows an inner or outer merge makes of one row of left: one per row
\* of right with the same category, and for the outer merge one with
\* Benchmark filled with 0 when there is none.
Matched(l, right, outer) ==
    LET same(r) == r.category = l.category
        rows == SelectSeq(right, same)
    IN  IF rows = <<>>
        THEN IF outer THEN <<[category |-> l.category, You |-> l.You, Benchmark |-> 0]>>
             ELSE <<>>
        ELSE [j \in 1..Len(rows) |->
                 [category |-> l.category, You |-> l.You, Benchmark |-> rows[j].Benchmark]]

RECURSIVE MergeLeft(_, _, _)
MergeLeft(left, right, outer) ==
    IF left = <<>> THEN <<>>
    ELSE Matched(Head(left), right, outer) \o MergeLeft(Tail(left), right, outer)

\* pd.merge(user_pct, bench_pct, on='category', how='inner')
MergeInner(left, right) == MergeLeft(left, right, FALSE)

\* pd.merge(user_pct, bench_pct, on='category', how='outer').fillna(0)
MergeOuter(left, right) == MergeLeft(left, right, TRUE) \o RightOnly(left, right)

\* comp with its Difference column: You - Benchmark, over the divisor of You.
Comparison(spending, total, benchmark) ==
    LET comp == MergeOuter(UserPct(spending, total), BenchPct(benchmark))
    IN  [i \in 1..Len(comp) |->
            [category |-> comp[i].category,
             You |-> comp[i].You,
             Benchmark |-> comp[i].Benchmark,
             Difference |-> [kind |-> "num",
                             num |-> comp[i].You.num - comp[i].Benchmark * comp[i].You.den,
                             den |-> comp[i].You.den]]]

\* What analyze_data computed on df for the declared income and the savings
\* goal, having stopped at the given stage.
Analysis(df, monthly_income, savings_goal, stage) ==
    [stage |-> stage,
     total_income |-> total_income(df),
     total_expenses |-> total_expenses(df),
     net_savings |-> total_income(df) - total_expenses(df),
     months_count |-> IF stage = "overview" THEN 0 ELSE months_count(df),
     avg_income |-> IF stage = "overview" THEN Zero
                    ELSE FloatDiv(total_income(df), months_count(df)),
     avg_spending |-> IF stage = "overview" THEN Zero
                      ELSE FloatDiv(total_expenses(df), months_count(df)),
     avg_savings |-> IF stage = "overview" THEN Zero
                     ELSE FloatDiv(total_income(df) - total_expenses(df), months_count(df)),
     category_spending |-> IF stage = "done" THEN category_spending(df) ELSE <<>>,
     benchmark |-> IF stage = "done" THEN SelectBenchmark(monthly_income)
                   ELSE NoBenchmark,
     comp |-> IF stage = "done"
              THEN Comparison(category_spending(df), total_expenses(df),
                              SelectBenchmark(monthly_income))
              ELSE <<>>,
     progress |-> IF stage = "done"
                  THEN Progress(total_income(df) - total_expenses(df), savings_goal)
                  ELSE Zero]

\* Rows of processed frames.
TxGas    == [month |-> 1, amount |-> -4000, category |-> "Transportation"]
TxFood   == [month |-> 1, amount |-> -1234, category |-> "Groceries"]
TxSalary == [month |-> 2, amount |-> 500000, category |-> "Income"]
TxRefund == [month |-> 2, amount |-> 1500, category |-> "Transportation"]

SampleTx == {TxGas, TxFood, TxSalary, TxRefund}

\* Longest processed frame, in rows.
MaxTx == 3

\* process_transactions returns its rows sorted by date.
SampleFrames ==
    {df \in SeqsUpTo(SampleTx, MaxTx) :
        \A k \in 1..(Len(df) - 1) : df[k].month <= df[k + 1].month}

\* Declared monthly incomes: number_input has min_value 0.0 and starts at
\* DefaultIncome.
DefaultIncome == 5000
SampleIncomes == {0, DefaultIncome, 49999, 50000, 100000, 250000}

\* Savings goals: number_input has min_value 0.0 and starts at DefaultGoal.
DefaultGoal == 10000
SampleGoals == {0, DefaultGoal}


(***************************************************************************)
(* S3 buckets, object keys and events                                      *)
(***************************************************************************)

SOURCE_BUCKET == "first-bucket-raw"
DEST_BUCKET   == "processed-data-finance-analyzer"
OtherBucket   == "some-other-bucket"

\* An object key is the sequence of its '/'-separated segments.
KeyPlain  == <<"a.csv">>
KeyFolder == <<"in", "a.csv">>

\* The keys raw files are uploaded under.
Keys == {KeyPlain, KeyFolder}

\* os.path.basename(key)
Basename(key) == key[Len(key)]

\* archive_key = f"archive/{filename}" of archive_file.
ArchiveKey(key) == <<"archive", Basename(key)>>

\* f"archive/{src_key}" of the 200 response.
ArchivedPath(key) == <<"archive">> \o key

\* Every key the source bucket can hold.
SrcKeys == Keys \cup {ArchiveKey(k) : k \in Keys}

\* A key without object.
NoObject == [absent |-> TRUE]

\* The files uploaded to the source bucket: one row that is skipped, one
\* valid row, and valid rows around a skipped one.
SampleFiles ==
    { [header |-> HeaderBank, rows |-> <<RowNoDate>>],
      [header |-> HeaderBank, rows |-> <<RowDebit50>>],
      [header |-> HeaderBank, rows |-> <<RowCredit20, RowBadAmount, RowDebit50>>] }

\* The processed file process_csv_file leaves at processed_file_path.
ProcessedFile(out) ==
    [header |-> ProcessedHeader,
     rows |-> [k \in 1..Len(out.written) |->
                 <<out.written[k].date, out.written[k].description,
                   out.written[k].amount, out.written[k].category>>]]

\* S3 event notifications and other payloads the handler may be given.
EventNoRecords    == [detail |-> "ping"]
EventEmptyRecords == [Records |-> <<>>]
EventNoS3         == [Records |-> <<[eventName |-> "ObjectCreated:Put"]>>]
EventS3(bucket, key) ==
    [Records |-> <<[s3 |-> [bucket |-> [name |-> bucket], object |-> [key |-> key]]]>>]

Events == {EventNoRecords, EventEmptyRecords, EventNoS3}
              \cup {EventS3(SOURCE_BUCKET, k) : k \in Keys}
              \cup {EventS3(OtherBucket, KeyPlain)}

\* The validation of the event without the check of the bucket name.
ValidateEventAnyBucket(ev) ==
    IF "Records" \notin DOMAIN ev THEN "Event does not contain 'Records' array"
    ELSE IF ev.Records = <<>> THEN "'Records' array is empty"
    ELSE IF "s3" \notin DOMAIN ev.Records[1] THEN "First record does not contain 's3' object"
    ELSE "ok"

\* The first failing check of "Validate event structure" and "Validate source
\* bucket", as the message of the ValueError raised, or "ok".
ValidateEvent(ev) ==
    IF "Records" \notin DOMAIN ev THEN "Event does not contain 'Records' array"
    ELSE IF ev.Records = <<>> THEN "'Records' array is empty"
    ELSE IF "s3" \notin DOMAIN ev.Records[1] THEN "First record does not contain 's3' object"
    ELSE IF ev.Records[1].s3.bucket.name # SOURCE_BUCKET THEN "Unexpected source bucket"
    ELSE "ok"

\* src_key of a valid event.
SrcKey(ev) == ev.Records[1].s3.object.key


(***************************************************************************)
(* State                                                                   *)
(***************************************************************************)

\* The handler instances that can run at the same time.
Invs == {"inv1", "inv2"}

\* Number of invocations of lambda_handler in one behaviour.
MaxInvocations == 2

VARIABLES
    srcBucket,      \* SOURCE_BUCKET: key -> raw file or NoObject
    destBucket,     \* DEST_BUCKET: key -> processed file or NoObject
    artifact,       \* key -> the raw file that was uploaded under it, or NoObject
    pc,             \* instance -> the statement it is at
    event,          \* instance -> its event argument
    raw_tf,         \* instance -> contents of its temporary raw file
    proc_tf,        \* instance -> contents of its temporary processed file
    rows_processed, \* instance -> value returned by process_csv_file
    result,         \* instance -> the response returned, or NoResult
    ops,            \* instance -> the S3 calls it completed, in order
    failedAt,       \* instance -> the statement that raised, or "none"
    invocations,    \* invocations started so far
    prior,          \* instance -> how earlier invocations for its key had ended
    csvPhase,       \* "input" or "done"
    csvIn,          \* the file given to process_csv_file
    csvOut,         \* what process_csv_file produced from csvIn
    catPhase,       \* "input" or "done"
    catIn,          \* the description given to _categorize_transaction
    catOut,         \* the category it returned
    processed_data, \* st.session_state.processed_data (empty while None)
    show_analysis,  \* st.session_state.show_analysis
    monthly_income, \* st.session_state.monthly_income
    savings_goal,   \* st.session_state.savings_goal
    analysis,       \* what analyze_data computed in the last rerun
    prev,           \* income and benchmark of the benchmark choice before the last
    waitPc,         \* the statement wait_for_processing is at
    elapsed,        \* time.time() - start_time, in seconds
    present,        \* whether the key exists in PROCESSED_BUCKET
    checks,         \* head_object calls made so far
    lastCheck,      \* how the last head_object call ended
    waitResult,     \* the value wait_for_processing returned
    ptPhase,        \* "raw", "read", "failed" or "done" ("none" when not run)
    ptIn,           \* the frame get_processed_data returned
    ptOut           \* what process_transactions returned for ptIn

hvars == <<srcBucket, destBucket, artifact, pc, event, raw_tf, proc_tf,
           rows_processed, result, ops, failedAt, invocations, prior>>
cvars == <<csvPhase, csvIn, csvOut>>
kvars == <<catPhase, catIn, catOut>>
avars == <<processed_data, show_analysis, monthly_income, savings_goal, analysis, prev>>
\* The variables of the functions checked on their own.
wvars == <<waitPc, elapsed, present, checks, lastCheck, waitResult>>
tvars == <<ptPhase, ptIn, ptOut>>
pvars == <<cvars, kvars, avars, wvars, tvars>>
vars  == <<srcBucket, destBucket, artifact, pc, event, raw_tf, proc_tf,
           rows_processed, result, ops, failedAt, invocations, prior,
           csvPhase, csvIn, csvOut, catPhase, catIn, catOut,
           processed_data, show_analysis, monthly_income, savings_goal, analysis, prev,
           waitPc, elapsed, present, checks, lastCheck, waitResult,
           ptPhase, ptIn, ptOut>>

NoResult == [statusCode |-> 0]
NoFile   == [header |-> <<>>, rows |-> <<>>]
NoOutput == [written |-> <<>>, rows_processed |-> 0, warnings |-> <<>>]

HandlerInit ==
    /\ srcBucket = [k \in SrcKeys |-> NoObject]
    /\ destBucket = [k \in Keys |-> NoObject]
    /\ artifact = [k \in Keys |-> NoObject]
    /\ pc = [i \in Invs |-> "idle"]
    /\ event = [i \in Invs |-> EventNoRecords]
    /\ raw_tf = [i \in Invs |-> NoFile]
    /\ proc_tf = [i \in Invs |-> NoFile]
    /\ rows_processed = [i \in Invs |-> 0]
    /\ result = [i \in Invs |-> NoResult]
    /\ ops = [i \in Invs |-> <<>>]
    /\ failedAt = [i \in Invs |-> "none"]
    /\ invocations = 0
    /\ prior = [i \in Invs |-> {}]

\* Nothing given to process_csv_file, nothing to _categorize_transaction.
CsvIdle == csvPhase = "done" /\ csvIn = NoFile /\ csvOut = NoOutput
CatIdle == catPhase = "done" /\ catIn = <<>> /\ catOut = <<>>

\* analyze_data has not run.
NoAnalysis == Analysis(<<>>, DefaultIncome, DefaultGoal, "none")
NoSelection == [income |-> 0, benchmark |-> NoBenchmark]

\* The defaults of st.session_state.
SessionInit ==
    /\ processed_data = <<>>
    /\ show_analysis = FALSE
    /\ monthly_income = DefaultIncome
    /\ savings_goal = DefaultGoal
    /\ analysis = NoAnalysis
    /\ prev = NoSelection

\* wait_for_processing is not running.
WaitIdle ==
    /\ waitPc = "idle"
    /\ elapsed = 0
    /\ present = FALSE
    /\ checks = 0
    /\ lastCheck = "none"
    /\ waitResult = FALSE

\* process_transactions returned None.
NoFrame == [ok |-> FALSE, rows |-> <<>>]

\* get_processed_data and process_transactions are not running.
PtIdle == ptPhase = "none" /\ ptIn = <<>> /\ ptOut = NoFrame

Init ==
    /\ HandlerInit
    /\ csvPhase = "done"
    /\ csvIn = NoFile
    /\ csvOut = NoOutput
    /\ CatIdle
    /\ SessionInit
    /\ WaitIdle
    /\ PtIdle

(***************************************************************************)
(* lambda_handler and archive_file                                         *)
(***************************************************************************)

\* StepAfter with "Archive original file" written before "Upload to
\* destination bucket".
StepAfterArchiveFirst(step) ==
    CASE step = "validate" -> "download"
      [] step = "download" -> "process"
      [] step = "process"  -> "copy"
      [] step = "copy"     -> "delete"
      [] step = "delete"   -> "upload"
      [] step = "upload"   -> "cleanup"
      [] step = "cleanup"  -> "done"

\* The statement after each S3 or file statement of the try block, when the
\* statement returns normally.
StepAfter(step) ==
    CASE step = "validate" -> "download"
      [] step = "download" -> "process"
      [] step = "process"  -> "upload"
      [] step = "upload"   -> "copy"
      [] step = "copy"     -> "delete"
      [] step = "delete"   -> "cleanup"
      [] step = "cleanup"  -> "done"

\* An except clause that logs the error and falls through to the statements
\* after the try block.
ExceptTargetFallsThrough(step) == "get_object"

\* ExceptTarget with the upload in a try block of its own that logs the
\* error and goes on to the archival.
ExceptTargetUploadSwallowed(step) == IF step = "upload" THEN "copy" ELSE "done"

\* Where control goes when the statement raises: everything is inside the one
\* try block, whose except clause returns the 500 response.
ExceptTarget(step) == "done"

\* str(e) when download_file or copy_object finds no object under the key.
NotFoundError  == "An error occurred (404) when calling the HeadObject operation"
NoSuchKeyError == "An error occurred (NoSuchKey) when calling the CopyObject operation"

\* What str(e) can be for an error raised inside boto3 by operation op.
LibraryErrors(op) ==
    {"Unable to locate credentials",
     CASE op = "GetObject"    -> "An error occurred when calling the GetObject operation"
       [] op = "PutObject"    -> "An error occurred when calling the PutObject operation"
       [] op = "CopyObject"   -> "An error occurred when calling the CopyObject operation"
       [] op = "DeleteObject" -> "An error occurred when calling the DeleteObject operation"}

\* PutObject that adds the rows to those already stored under the key, as
\* an INSERT into a table would.
PutObjectAppending(bucket, key, body) ==
    [bucket EXCEPT ![key] = IF @ = NoObject THEN body
                            ELSE [header |-> @.header, rows |-> @.rows \o body.rows]]

\* put_object / upload_file / copy_object: the object under key is replaced.
PutObject(bucket, key, body) == [bucket EXCEPT ![key] = body]

\* delete_object: succeeds whether or not the key holds an object.
DeleteObject(bucket, key) == [bucket EXCEPT ![key] = NoObject]

\* DestKey that drops the folder of the key.
DestKeyBasename(key) == <<Basename(key)>>

\* The key the processed file is uploaded under: src_key.
DestKey(key) == key

\* EmptyBatch without the check.
EmptyBatchNeverRaised(n) == FALSE

\* rows_processed == 0
EmptyBatch(n) == n = 0

\* An except clause that re-raises instead of returning a response.
ErrorResponseReraised(ev, msg) == NoResult

\* The response of the except clause.
ErrorResponse(ev, msg) ==
    [statusCode |-> 500, body |-> [error |-> msg, event |-> ev]]

\* The response returned after the with block.
SuccessResponse(key, n) ==
    [statusCode |-> 200,
     body |-> [message |-> key, rows_processed |-> n,
               source_bucket |-> SOURCE_BUCKET, destination_bucket |-> DEST_BUCKET,
               archived_path |-> ArchivedPath(key)]]

\* The statement `step` of instance i raises an exception with text msg.
Raise(i, step, msg) ==
    /\ pc' = [pc EXCEPT ![i] = ExceptTarget(step)]
    /\ failedAt' = [failedAt EXCEPT ![i] = step]
    /\ result' = IF ExceptTarget(step) = "done"
                 THEN [result EXCEPT ![i] = ErrorResponse(event[i], msg)]
                 ELSE result

\* The statement `step` of instance i returns normally.
Advance(i, step) ==
    /\ pc' = [pc EXCEPT ![i] = StepAfter(step)]
    /\ UNCHANGED <<failedAt, result>>

Did(i, op, key) == ops' = [ops EXCEPT ![i] = Append(@, [op |-> op, key |-> key])]

\* A raw file is uploaded to the source bucket under a key not used before
\* (upload_to_s3 prefixes a fresh uuid4; test_lambda.py uploads test.csv).
PutSource(k, f) ==
    /\ artifact[k] = NoObject
    /\ artifact' = [artifact EXCEPT ![k] = f]
    /\ srcBucket' = PutObject(srcBucket, k, f)
    /\ UNCHANGED <<destBucket, pc, event, raw_tf, proc_tf, rows_processed, result,
                   ops, failedAt, invocations, prior>>
    /\ UNCHANGED pvars

\* How the invocations that have returned so far for the key of event ev
\* ended: "ok" for a 200 response, else the statement that raised.  (History
\* only: no statement of the handler reads it.)
PriorOutcomes(ev) ==
    IF ValidateEvent(ev) # "ok" THEN {}
    ELSE {IF result[j].statusCode = 200 THEN "ok" ELSE failedAt[j] :
            j \in {j \in Invs : /\ pc[j] = "done"
                                /\ ValidateEvent(event[j]) = "ok"
                                /\ SrcKey(event[j]) = SrcKey(ev)}}

\* lambda_handler(event, context) is called.
Invoke(i, ev) ==
    /\ pc[i] \in {"idle", "done", "crashed"}
    /\ invocations < MaxInvocations
    /\ invocations' = invocations + 1
    /\ pc' = [pc EXCEPT ![i] = "validate"]
    /\ event' = [event EXCEPT ![i] = ev]
    /\ raw_tf' = [raw_tf EXCEPT ![i] = NoFile]
    /\ proc_tf' = [proc_tf EXCEPT ![i] = NoFile]
    /\ rows_processed' = [rows_processed EXCEPT ![i] = 0]
    /\ result' = [result EXCEPT ![i] = NoResult]
    /\ ops' = [ops EXCEPT ![i] = <<>>]
    /\ failedAt' = [failedAt EXCEPT ![i] = "none"]
    /\ prior' = [prior EXCEPT ![i] = PriorOutcomes(ev)]
    /\ UNCHANGED <<srcBucket, destBucket, artifact>>
    /\ UNCHANGED pvars

\* check_s3_access, then the validation of the event and of the bucket name.
Validate(i) ==
    /\ pc[i] = "validate"
    /\ \/ Raise(i, "check_s3_access", "Failed to access S3 buckets")
       \/ /\ ValidateEvent(event[i]) # "ok"
          /\ Raise(i, "validate", ValidateEvent(event[i]))
       \/ /\ ValidateEvent(event[i]) = "ok"
          /\ Advance(i, "validate")
    /\ UNCHANGED <<srcBucket, destBucket, artifact, event, raw_tf, proc_tf,
                   rows_processed, ops, invocations, prior>>
    /\ UNCHANGED pvars

\* s3.download_file(src_bucket, src_key, raw_tf.name)
Download(i) ==
    /\ pc[i] = "download"
    /\ LET key == SrcKey(event[i])
       IN  \/ /\ srcBucket[key] # NoObject
              /\ raw_tf' = [raw_tf EXCEPT ![i] = srcBucket[key]]
              /\ Did(i, "download", key)
              /\ Advance(i, "download")
           \/ /\ srcBucket[key] = NoObject
              /\ Raise(i, "download", NotFoundError)
              /\ UNCHANGED <<raw_tf, ops>>
           \/ /\ \E msg \in LibraryErrors("GetObject") : Raise(i, "download", msg)
              /\ UNCHANGED <<raw_tf, ops>>
    /\ UNCHANGED <<srcBucket, destBucket, artifact, event, proc_tf, rows_processed,
                   invocations, prior>>
    /\ UNCHANGED pvars

\* rows_processed = process_csv_file(...), then the rows_processed == 0 check.
Process(i) ==
    /\ pc[i] = "process"
    /\ LET out == process_csv_file(raw_tf[i])
       IN  \/ /\ Raise(i, "process", "Error processing CSV")
              /\ UNCHANGED <<proc_tf, rows_processed>>
           \/ /\ proc_tf' = [proc_tf EXCEPT ![i] = ProcessedFile(out)]
              /\ rows_processed' = [rows_processed EXCEPT ![i] = out.rows_processed]
              /\ IF EmptyBatch(out.rows_processed)
                 THEN Raise(i, "empty", "No valid rows found")
                 ELSE Advance(i, "process")
    /\ UNCHANGED <<srcBucket, destBucket, artifact, event, raw_tf, ops, invocations, prior>>
    /\ UNCHANGED pvars

\* s3.upload_file(proc_tf.name, DEST_BUCKET, src_key)
Upload(i) ==
    /\ pc[i] = "upload"
    /\ LET key == SrcKey(event[i])
       IN  \/ /\ destBucket' = PutObject(destBucket, DestKey(key), proc_tf[i])
              /\ Did(i, "upload", DestKey(key))
              /\ Advance(i, "upload")
           \/ /\ \E msg \in LibraryErrors("PutObject") : Raise(i, "upload", msg)
              /\ UNCHANGED <<destBucket, ops>>
    /\ UNCHANGED <<srcBucket, artifact, event, raw_tf, proc_tf, rows_processed,
                   invocations, prior>>
    /\ UNCHANGED pvars

\* archive_file: s3.copy_object(Bucket=bucket, Key=archive_key, CopySource=...)
ArchiveCopy(i) ==
    /\ pc[i] = "copy"
    /\ LET key == SrcKey(event[i])
       IN  \/ /\ srcBucket[key] # NoObject
              /\ srcBucket' = PutObject(srcBucket, ArchiveKey(key), srcBucket[key])
              /\ Did(i, "copy", ArchiveKey(key))
              /\ Advance(i, "copy")
           \/ /\ srcBucket[key] = NoObject
              /\ Raise(i, "copy", NoSuchKeyError)
              /\ UNCHANGED <<srcBucket, ops>>
           \/ /\ \E msg \in LibraryErrors("CopyObject") : Raise(i, "copy", msg)
              /\ UNCHANGED <<srcBucket, ops>>
    /\ UNCHANGED <<destBucket, artifact, event, raw_tf, proc_tf, rows_processed,
                   invocations, prior>>
    /\ UNCHANGED pvars

\* archive_file: s3.delete_object(Bucket=bucket, Key=key)
ArchiveDelete(i) ==
    /\ pc[i] = "delete"
    /\ LET key == SrcKey(event[i])
       IN  \/ /\ srcBucket' = DeleteObject(srcBucket, key)
              /\ Did(i, "delete", key)
              /\ Advance(i, "delete")
           \/ /\ \E msg \in LibraryErrors("DeleteObject") : Raise(i, "delete", msg)
              /\ UNCHANGED <<srcBucket, ops>>
    /\ UNCHANGED <<destBucket, artifact, event, raw_tf, proc_tf, rows_processed,
                   invocations, prior>>
    /\ UNCHANGED pvars

\* os.unlink of the two temporary files, then the 200 response.
Return(i) ==
    /\ pc[i] = "cleanup"
    /\ \/ /\ pc' = [pc EXCEPT ![i] = StepAfter("cleanup")]
          /\ result' = [result EXCEPT ![i] =
                           SuccessResponse(SrcKey(event[i]), rows_processed[i])]
          /\ UNCHANGED failedAt
       \/ Raise(i, "cleanup", "OSError")
    /\ UNCHANGED <<srcBucket, destBucket, artifact, event, raw_tf, proc_tf,
                   rows_processed, ops, invocations, prior>>
    /\ UNCHANGED pvars

\* The instance is killed (timeout, out of memory) before it returns.
Crash(i) ==
    /\ pc[i] \notin {"idle", "done", "crashed"}
    /\ pc' = [pc EXCEPT ![i] = "crashed"]
    /\ UNCHANGED <<srcBucket, destBucket, artifact, event, raw_tf, proc_tf,
                   rows_processed, result, ops, failedAt, invocations, prior>>
    /\ UNCHANGED pvars

Next ==
    \/ \E k \in Keys, f \in SampleFiles : PutSource(k, f)
    \/ \E i \in Invs, ev \in Events : Invoke(i, ev)
    \/ \E i \in Invs : Validate(i)
    \/ \E i \in Invs : Download(i)
    \/ \E i \in Invs : Process(i)
    \/ \E i \in Invs : Upload(i)
    \/ \E i \in Invs : ArchiveCopy(i)
    \/ \E i \in Invs : ArchiveDelete(i)
    \/ \E i \in Invs : Return(i)
    \/ \E i \in Invs : Crash(i)

Spec == Init /\ [][Next]_vars

(***************************************************************************)
(* process_csv_file on its own                                             *)
(***************************************************************************)

CsvInit ==
    /\ HandlerInit
    /\ csvPhase = "input"
    /\ csvIn \in SampleCsvFiles
    /\ csvOut = NoOutput
    /\ CatIdle
    /\ SessionInit
    /\ WaitIdle
    /\ PtIdle

RunProcessCsv ==
    /\ csvPhase = "input"
    /\ csvPhase' = "done"
    /\ csvOut' = process_csv_file(csvIn)
    /\ UNCHANGED csvIn
    /\ UNCHANGED hvars
    /\ UNCHANGED kvars
    /\ UNCHANGED avars
    /\ UNCHANGED wvars
    /\ UNCHANGED tvars

CsvNext == RunProcessCsv

CsvSpec == CsvInit /\ [][CsvNext]_vars

(***************************************************************************)
(* _categorize_transaction on its own                                      *)
(***************************************************************************)

CatInit ==
    /\ HandlerInit
    /\ CsvIdle
    /\ catPhase = "input"
    /\ catIn \in SampleDescriptions
    /\ catOut = <<>>
    /\ SessionInit
    /\ WaitIdle
    /\ PtIdle

RunCategorize ==
    /\ catPhase = "input"
    /\ catPhase' = "done"
    /\ catOut' = categorize_transaction(catIn)
    /\ UNCHANGED catIn
    /\ UNCHANGED hvars
    /\ UNCHANGED cvars
    /\ UNCHANGED avars
    /\ UNCHANGED wvars
    /\ UNCHANGED tvars

CatNext == RunCategorize

CatSpec == CatInit /\ [][CatNext]_vars

(***************************************************************************)
(* The dashboard: main and analyze_data                                    *)
(***************************************************************************)

AppInit ==
    /\ HandlerInit
    /\ CsvIdle
    /\ CatIdle
    /\ SessionInit
    /\ WaitIdle
    /\ PtIdle

\* The Analysis tab of one rerun of main: analyze_data runs when data is
\* shown, on the frame, the income and the goal given, and stops at one of
\* the stages it can stop at.
Rerun(shown, df, income, goal) ==
    IF shown
    THEN /\ \E stage \in Outcomes(df) : analysis' = Analysis(df, income, goal, stage)
         /\ prev' = IF analysis.stage = "done"
                    THEN [income |-> monthly_income, benchmark |-> analysis.benchmark]
                    ELSE prev
    ELSE UNCHANGED <<analysis, prev>>

\* "Process Data" or "Generate Sample Data": the frame process_transactions
\* returned is stored and st.rerun() draws the analysis.
LoadData(df) ==
    /\ processed_data' = df
    /\ show_analysis' = TRUE
    /\ UNCHANGED <<monthly_income, savings_goal>>
    /\ Rerun(TRUE, df, monthly_income, savings_goal)
    /\ UNCHANGED <<hvars, cvars, kvars, wvars, tvars>>

\* The user changes the "Monthly Income (Post-Tax)" number_input, which
\* reruns main.
ChangeIncome(x) ==
    /\ x # monthly_income
    /\ monthly_income' = x
    /\ UNCHANGED <<processed_data, show_analysis, savings_goal>>
    /\ Rerun(show_analysis, processed_data, x, savings_goal)
    /\ UNCHANGED <<hvars, cvars, kvars, wvars, tvars>>

\* The user changes the "Savings Goal ($)" number_input, which reruns main.
ChangeGoal(g) ==
    /\ g # savings_goal
    /\ savings_goal' = g
    /\ UNCHANGED <<processed_data, show_analysis, monthly_income>>
    /\ Rerun(show_analysis, processed_data, monthly_income, g)
    /\ UNCHANGED <<hvars, cvars, kvars, wvars, tvars>>

AppNext ==
    \/ \E df \in SampleFrames : LoadData(df)
    \/ \E x \in SampleIncomes : ChangeIncome(x)
    \/ \E g \in SampleGoals : ChangeGoal(g)

AppSpec == AppInit /\ [][AppNext]_vars

(***************************************************************************)
(* wait_for_processing                                                     *)
(***************************************************************************)

\* max_wait=30, the default of the parameter; main passes no other value.
max_wait == 30

\* time.sleep(2)
SleepSeconds == 2

\* The longest a head_object call takes, in seconds.
MaxCallSeconds == 1

\* How s3_client.head_object(Bucket=PROCESSED_BUCKET, Key=key) can end: it
\* returns only when the key exists, raises ClientError 404 when it does not,
\* and can raise anything else (credentials, connection) in either case.
HeadObjectOutcomes(exists) ==
    IF exists THEN {"ok", "error"} ELSE {"404", "error"}

\* An except clause that catches ClientError only.
ExceptClientError(outcome) == IF outcome = "404" THEN "sleep" ELSE "raised"

\* `except:` catches whatever head_object raised; its body is the sleep.
ExceptAll(outcome) == "sleep"

WaitInit ==
    /\ HandlerInit
    /\ CsvIdle
    /\ CatIdle
    /\ SessionInit
    /\ PtIdle
    /\ waitPc = "while"
    /\ elapsed = 0
    /\ present \in BOOLEAN
    /\ checks = 0
    /\ lastCheck = "none"
    /\ waitResult = FALSE

\* while time.time() - start_time < max_wait: ... return False
WhileTest ==
    /\ waitPc = "while"
    /\ IF elapsed < max_wait
       THEN waitPc' = "head_object" /\ UNCHANGED waitResult
       ELSE waitPc' = "returned" /\ waitResult' = FALSE
    /\ UNCHANGED <<elapsed, present, checks, lastCheck>>
    /\ UNCHANGED <<hvars, cvars, kvars, avars, tvars>>

\* try: s3_client.head_object(...); return True / except: the call takes
\* up to MaxCallSeconds and ends in one of its outcomes.
HeadObject ==
    /\ waitPc = "head_object"
    /\ \E d \in 0..MaxCallSeconds, out \in HeadObjectOutcomes(present) :
          /\ elapsed' = elapsed + d
          /\ lastCheck' = out
          /\ IF out = "ok"
             THEN waitPc' = "returned" /\ waitResult' = TRUE
             ELSE waitPc' = ExceptAll(out) /\ UNCHANGED waitResult
    /\ checks' = checks + 1
    /\ UNCHANGED present
    /\ UNCHANGED <<hvars, cvars, kvars, avars, tvars>>

\* time.sleep(2), then back to the test of the loop.
Sleep ==
    /\ waitPc = "sleep"
    /\ elapsed' = elapsed + SleepSeconds
    /\ waitPc' = "while"
    /\ UNCHANGED <<present, checks, lastCheck, waitResult>>
    /\ UNCHANGED <<hvars, cvars, kvars, avars, tvars>>

\* Meanwhile the Lambda function uploads the processed file under the key.
LambdaUploads ==
    /\ waitPc \in {"while", "head_object", "sleep"}
    /\ ~present
    /\ present' = TRUE
    /\ UNCHANGED <<waitPc, elapsed, checks, lastCheck, waitResult>>
    /\ UNCHANGED <<hvars, cvars, kvars, avars, tvars>>

WaitStep == WhileTest \/ HeadObject \/ Sleep

WaitNext ==
    \/ WhileTest
    \/ HeadObject
    \/ Sleep
    \/ LambdaUploads

WaitSpec == WaitInit /\ [][WaitNext]_vars

\* The statements of wait_for_processing keep executing: the script thread
\* runs it to its return, and each call it makes returns or raises.
WaitFairSpec == WaitSpec /\ WF_vars(WaitStep)


(***************************************************************************)
(* Properties of the storage sink (lambda_handler, archive_file)           *)
(***************************************************************************)

\* Instance i has completed S3 call op (any key).
HasDone(i, op) == \E n \in 1..Len(ops[i]) : ops[i][n].op = op

\* Instance i was given a valid event for key k.
IsFor(i, k) == ValidateEvent(event[i]) = "ok" /\ SrcKey(event[i]) = k

\* The processed batch of the artifact uploaded under key k.
BatchOf(k) == ProcessedFile(process_csv_file(artifact[k]))

\* C1: in every execution of lambda_handler, a copy to archive/ or a delete
\* of the source object is performed only after the upload of the processed
\* batch under the same key has returned without error.
C1_ArchiveOnlyAfterUpload ==
    \A i \in Invs : \A n \in 1..Len(ops[i]) :
        ops[i][n].op \in {"copy", "delete"} =>
            \E m \in 1..(n - 1) : /\ ops[i][m].op = "upload"
                                  /\ ops[i][m].key = SrcKey(event[i])

\* An execution that has deleted the source object, so that went through both
\* steps of the archival.
C1_Witness == \E i \in Invs : HasDone(i, "upload") /\ HasDone(i, "delete")

\* C2: when the upload raises, the execution returns the 500 response at once,
\* has performed no copy and no delete, and the failing step leaves both
\* buckets as they were, the artifact still under its original key.
C2_UploadFailureLeavesArtifact ==
    /\ [](\A i \in Invs : failedAt[i] = "upload" =>
            /\ pc[i] = "done"
            /\ result[i].statusCode = 500
            /\ ~HasDone(i, "upload") /\ ~HasDone(i, "copy") /\ ~HasDone(i, "delete"))
    /\ [][\A i \in Invs : (failedAt[i] # "upload" /\ failedAt'[i] = "upload") =>
            /\ srcBucket' = srcBucket
            /\ destBucket' = destBucket]_vars

\* An upload has failed and the artifact is at its original key, unchanged.
C2_Witness ==
    \E i \in Invs : /\ failedAt[i] = "upload"
                    /\ result[i].statusCode = 500
                    /\ srcBucket[SrcKey(event[i])] = artifact[SrcKey(event[i])]
                    /\ srcBucket[ArchiveKey(SrcKey(event[i]))] = NoObject

\* C3: once the batch of an artifact is stored, no later step of any
\* invocation changes what is stored under its key: a second commit of the
\* same artifact leaves the same rows as the first.
C3_CommitIdempotent ==
    [][\A k \in Keys : destBucket[k] # NoObject => destBucket'[k] = destBucket[k]]_vars

\* Two invocations have both uploaded the batch of the same artifact and the
\* store holds that batch once.
C3_Witness ==
    \E i, j \in Invs, k \in Keys :
        /\ i # j
        /\ IsFor(i, k) /\ IsFor(j, k)
        /\ pc[i] = "done" /\ pc[j] = "done"
        /\ HasDone(i, "upload") /\ HasDone(j, "upload")
        /\ destBucket[k] = BatchOf(k)


\* Instance i met no failure other than the object being absent.
Undisturbed(i) ==
    \/ failedAt[i] = "none"
    \/ failedAt[i] = "download" /\ result[i].body.error = NotFoundError

\* C4: an invocation for an artifact that an earlier invocation has already
\* committed and archived (it returned 200) is a no-op success: unless an S3
\* call fails for another reason, it returns 200 and uploads nothing.
C4_AlreadyArchivedIsNoOpSuccess ==
    \A i \in Invs :
        ("ok" \in prior[i] /\ pc[i] = "done" /\ Undisturbed(i)) =>
            result[i].statusCode = 200 /\ ~HasDone(i, "upload")

\* C5: whatever the interleaving of the invocations and wherever one of them
\* crashes, the destination store holds under the key of an artifact nothing
\* or exactly the batch of that artifact (each row once); it holds the batch
\* as soon as one invocation has uploaded it, and the original is removed
\* from the source bucket only when the batch is stored.
C5_ExactlyOneCopy ==
    \A k \in Keys :
        IF artifact[k] = NoObject
        THEN destBucket[k] = NoObject
        ELSE /\ destBucket[k] \in {NoObject, BatchOf(k)}
             /\ (\E i \in Invs : IsFor(i, k) /\ HasDone(i, "upload"))
                    => destBucket[k] = BatchOf(k)
             /\ srcBucket[k] = NoObject => destBucket[k] = BatchOf(k)

\* One invocation crashed after its upload, and the retry ran to its 200
\* response: the store holds the batch once.
C5_Witness ==
    \E i, j \in Invs, k \in Keys :
        /\ i # j
        /\ IsFor(i, k) /\ IsFor(j, k)
        /\ pc[i] = "crashed" /\ HasDone(i, "upload")
        /\ pc[j] = "done" /\ result[j].statusCode = 200
        /\ destBucket[k] = BatchOf(k)
        /\ Len(destBucket[k].rows) = rows_processed[j]

\* C6: a failure of the archival after a successful upload is reported with a
\* response that differs from the one of a failed upload, and an invocation
\* that follows such a failure for the same artifact does not upload again.
C6_ArchiveFailureDistinct ==
    /\ \A i, j \in Invs :
          (/\ failedAt[i] \in {"copy", "delete"} /\ pc[i] = "done"
           /\ failedAt[j] = "upload" /\ pc[j] = "done")
              => \/ result[i].statusCode # result[j].statusCode
                 \/ result[i].body.error # result[j].body.error
    /\ \A i \in Invs :
          prior[i] \cap {"copy", "delete"} # {} => ~HasDone(i, "upload")

\* C7: whenever an invocation that uploaded the batch has returned, the
\* artifact is in exactly one place: under its archive key or under its
\* original key, never both.
C7_ArchivalIsAMove ==
    \A i \in Invs :
        (pc[i] = "done" /\ HasDone(i, "upload")) =>
            LET key == SrcKey(event[i])
            IN  (srcBucket[key] # NoObject) # (srcBucket[ArchiveKey(key)] # NoObject)

\* C8: the key archive_file copies to is 'archive/' followed by the original
\* key, it is the archived_path of the 200 response, and the artifacts of two
\* different keys are never copied to the same archive key.
C8_ArchiveKeyedByOriginalName ==
    /\ \A i \in Invs : \A n \in 1..Len(ops[i]) :
          ops[i][n].op = "copy" =>
              /\ ops[i][n].key = <<"archive">> \o SrcKey(event[i])
              /\ result[i].statusCode = 200 => result[i].body.archived_path = ops[i][n].key
    /\ \A i, j \in Invs : \A n \in 1..Len(ops[i]), m \in 1..Len(ops[j]) :
          (/\ ops[i][n].op = "copy" /\ ops[j][m].op = "copy"
           /\ SrcKey(event[i]) # SrcKey(event[j]))
              => ops[i][n].key # ops[j][m].key


\* C10: a file from which process_csv_file writes no row never leads to the
\* 200 response: the invocation that downloaded it stops at the check, returns
\* 500, and has uploaded, copied and deleted nothing.
C10_EmptyBatchIsAnError ==
    \A i \in Invs :
        (HasDone(i, "download") /\ process_csv_file(raw_tf[i]).rows_processed = 0) =>
            /\ pc[i] \in {"process", "done", "crashed"}
            /\ ~HasDone(i, "upload") /\ ~HasDone(i, "copy") /\ ~HasDone(i, "delete")
            /\ pc[i] = "done" => result[i].statusCode = 500
            /\ destBucket[SrcKey(event[i])] = NoObject

\* An invocation has returned 500 from the rows_processed == 0 check, with
\* the artifact still under its key and nothing stored for it.
C10_Witness ==
    \E i \in Invs :
        /\ failedAt[i] = "empty" /\ pc[i] = "done"
        /\ result[i].statusCode = 500
        /\ rows_processed[i] = 0
        /\ srcBucket[SrcKey(event[i])] = artifact[SrcKey(event[i])]
        /\ destBucket[SrcKey(event[i])] = NoObject

(***************************************************************************)
(* Properties of ingestion (process_csv_file)                              *)
(***************************************************************************)

\* The fields of s between the occurrences of sep.
RECURSIVE SplitOn(_, _)
SplitOn(s, sep) ==
    IF \A k \in 1..Len(s) : s[k] # sep THEN <<s>>
    ELSE LET p == CHOOSE k \in 1..Len(s) : s[k] = sep /\ \A j \in 1..(k - 1) : s[j] # sep
         IN  <<SubSeq(s, 1, p - 1)>> \o SplitOn(SubSeq(s, p + 1, Len(s)), sep)

IsNumberIn(s, lens, lo, hi) ==
    Len(s) \in lens /\ AllDigits(s) /\ DigitsVal(s) >= lo /\ DigitsVal(s) <= hi

\* A date in the format YYYY-MM-DD.
ParsesIso(s) ==
    LET f == SplitOn(s, "-")
    IN  /\ Len(f) = 3
        /\ IsNumberIn(f[1], {4}, 1, 9999)
        /\ IsNumberIn(f[2], {1, 2}, 1, 12)
        /\ IsNumberIn(f[3], {1, 2}, 1, 31)

\* A date in the format MM/DD/YYYY.
ParsesUs(s) ==
    LET f == SplitOn(s, "/")
    IN  /\ Len(f) = 3
        /\ IsNumberIn(f[1], {1, 2}, 1, 12)
        /\ IsNumberIn(f[2], {1, 2}, 1, 31)
        /\ IsNumberIn(f[3], {4}, 1, 9999)

\* A malformed row: its date is missing or in none of the accepted formats,
\* or it has no amount, or its amount is not a number.
Malformed(row) ==
    \/ ~Truthy(RowDate(row))
    \/ ~(ParsesIso(RowDate(row)) \/ ParsesUs(RowDate(row)))
    \/ ~RowAmount(row).ok

\* C9: from a file with N valid and M malformed rows, in any order, ingestion
\* emits the N valid rows in source order, whatever malformed rows precede
\* them, and reports the M malformed rows as rejections, each with a reason;
\* N + M is the number of rows of the file.
C9_IngestRoundTrip ==
    csvPhase = "done" =>
        LET rows == DictReader(csvIn)
            bad == {k \in 1..Len(rows) : Malformed(rows[k])}
            good == (1..Len(rows)) \ bad
            \* the position in the file of the n-th valid row
            nth(n) == CHOOSE k \in good : Cardinality({j \in good : j <= k}) = n
        IN  /\ csvOut.rows_processed = Cardinality(good)
            /\ Len(csvOut.written) = Cardinality(good)
            /\ \A n \in 1..Len(csvOut.written) :
                  /\ n <= Cardinality(good)
                  /\ csvOut.written[n].date = RowDate(rows[nth(n)])
                  /\ csvOut.written[n].description = CsvCell(RowDesc(rows[nth(n)]))
            /\ {csvOut.warnings[n].row : n \in 1..Len(csvOut.warnings)} = bad
            /\ \A n \in 1..Len(csvOut.warnings) : csvOut.warnings[n].reason # "none"
            /\ Len(csvOut.warnings) = Cardinality(bad)
            /\ csvOut.rows_processed + Len(csvOut.warnings) = Len(rows)

\* The position in the file of the n-th emitted row of the last run: the
\* rows that drew no warning, in file order.
SourceRow(n) ==
    LET rows == DictReader(csvIn)
        kept == (1..Len(rows)) \ {csvOut.warnings[j].row : j \in 1..Len(csvOut.warnings)}
    IN  CHOOSE k \in kept : Cardinality({j \in kept : j <= k}) = n

\* The value of a cell as a number: separators removed, then read as a float.
CellValue(s) == FloatVal(Remove(s, ","))

\* C11: sign convention. Every emitted row whose debit is non-empty and whose
\* credit is empty has the amount -d, and every emitted row whose credit is
\* non-empty and whose debit is empty has the amount +c.
C11_SignConvention ==
    csvPhase = "done" =>
        \A n \in 1..Len(csvOut.written) :
            LET row == DictReader(csvIn)[SourceRow(n)]
                d == RowDebit(row)
                c == RowCredit(row)
            IN  /\ (Truthy(d) /\ ~Truthy(c)) =>
                      csvOut.written[n].amount =
                          Format2f([neg |-> ~CellValue(d).neg, mag |-> CellValue(d).mag])
                /\ (Truthy(c) /\ ~Truthy(d)) =>
                      csvOut.written[n].amount = Format2f(CellValue(c))

\* A run that emitted a debit-only row as -50.00 and a credit-only row as
\* 20.00.
C11_Witness ==
    /\ csvPhase = "done"
    /\ csvIn.header = HeaderBank
    /\ csvIn.rows = <<RowDebit50, RowCredit20>>
    /\ Len(csvOut.written) = 2
    /\ csvOut.written[1].amount = <<"-", "5", "0", ".", "0", "0">>
    /\ csvOut.written[2].amount = <<"2", "0", ".", "0", "0">>

\* The combined amount column of a row.
RowCombined(row) == Get(row, "amount", None)

\* The rows of the last run's file that drew no warning.
KeptRows ==
    (1..Len(DictReader(csvIn))) \ {csvOut.warnings[j].row : j \in 1..Len(csvOut.warnings)}

\* C12: a row with a dated, numeric combined amount column is emitted with
\* the value of that column as its amount, whether or not the row also has
\* debit and credit columns.
C12_AmountColumnPrecedence ==
    csvPhase = "done" =>
        \A k \in 1..Len(DictReader(csvIn)) :
            LET row == DictReader(csvIn)[k]
                a == RowCombined(row)
            IN  (/\ Truthy(a)
                 /\ FloatOk(Remove(a, ","))
                 /\ Truthy(RowDate(row))
                 /\ ParsesIso(RowDate(row)) \/ ParsesUs(RowDate(row)))
                => /\ k \in KeptRows
                   /\ csvOut.written[Cardinality({j \in KeptRows : j <= k})].amount
                          = Format2f(CellValue(a))

\* C13: every emitted transaction has a date in one of the accepted formats,
\* YYYY-MM-DD or MM/DD/YYYY; a row whose date is missing or in neither format
\* is dropped with a warning and never emitted.
C13_EmittedDateParses ==
    csvPhase = "done" =>
        /\ \A n \in 1..Len(csvOut.written) :
              /\ Truthy(csvOut.written[n].date)
              /\ ParsesIso(csvOut.written[n].date) \/ ParsesUs(csvOut.written[n].date)
        /\ \A k \in 1..Len(DictReader(csvIn)) :
              LET date == RowDate(DictReader(csvIn)[k])
              IN  (~Truthy(date) \/ ~(ParsesIso(date) \/ ParsesUs(date)))
                      => k \notin KeptRows

\* The labels _categorize_transaction can return.
Labels == {categories[i].category : i \in 1..Len(categories)} \cup {Other}

\* C14: every emitted transaction has a non-empty category: the non-empty
\* category of its source row, or else the label the categorizer gives its
\* description, which is 'Other' when no keyword matches.
C14_EmittedCategoryNonEmpty ==
    csvPhase = "done" =>
        \A n \in 1..Len(csvOut.written) :
            LET supplied == RowCategory(DictReader(csvIn)[SourceRow(n)])
                t == csvOut.written[n]
            IN  /\ t.category # <<>>
                /\ IF Truthy(supplied)
                   THEN t.category = supplied
                   ELSE /\ t.category \in Labels
                        /\ t.category = categorize_transaction(t.description)

(***************************************************************************)
(* Properties of classification (_categorize_transaction)                  *)
(***************************************************************************)

\* Entry i of the rule table has a keyword that occurs in the description
\* given, letter case aside.
Matches(i) == AnyKeyword(Lower(catIn), categories[i].keywords)

\* The keywords of the rule table that occur in the description given.
MatchingKeywords ==
    {kw \in UNION {{categories[i].keywords[j] : j \in 1..Len(categories[i].keywords)} :
                      i \in 1..Len(categories)} : Contains(Lower(catIn), kw)}

\* The position of a label in the rule table.
TableIndex(label) == CHOOSE i \in 1..Len(categories) : categories[i].category = label

\* C15: classification is first match wins in the order of the rule table:
\* the category returned is that of the first entry with a keyword occurring
\* in the description, letter case aside; a description whose only matching
\* keyword is "gas" gets the earlier of Transportation and Utilities.
C15_FirstMatchWins ==
    catPhase = "done" =>
        /\ \A i \in 1..Len(categories) :
              (Matches(i) /\ \A h \in 1..(i - 1) : ~Matches(h))
                  => catOut = categories[i].category
        /\ MatchingKeywords = {Kw_gas} =>
              catOut = IF TableIndex(Transportation) < TableIndex(Utilities)
                       THEN Transportation ELSE Utilities

\* A description matching "gas" only, in capitals, classified as
\* Transportation, the earlier of the two entries listing that keyword.
C15_Witness ==
    /\ catPhase = "done"
    /\ catIn = <<"S", "h", "e", "l", "l", " ", "G", "a", "s">>
    /\ MatchingKeywords = {Kw_gas}
    /\ Matches(TableIndex(Transportation))
    /\ Matches(TableIndex(Utilities))
    /\ catOut = Transportation

\* C16: a description in which no keyword of the rule table occurs, the
\* empty description included, is classified as 'Other'.
C16_NoMatchIsOther ==
    catPhase = "done" =>
        ((\A i \in 1..Len(categories) : ~Matches(i)) => catOut = Other)

\* The empty description and one without keywords, both classified 'Other'.
C16_Witness ==
    /\ catPhase = "done"
    /\ catIn \in {<<>>, <<"x", "y", "z">>}
    /\ \A i \in 1..Len(categories) : ~Matches(i)
    /\ catOut = <<"O", "t", "h", "e", "r">>

\* A debit or credit cell that holds something other than blanks.
Present(cell) == Truthy(cell) /\ Truthy(Strip(cell))

\* A cell with currency symbols and thousands separators taken out.
StripCurrency(cell) == Remove(Remove(cell, "$"), ",")

\* C17: amount parsing. Of a dated row with at most one of debit and credit
\* present: when the present cell is a number once currency symbols and
\* thousands separators are stripped, e.g. "$1,234.50", the row is emitted
\* with that magnitude; when both cells are empty, or the cell is no number,
\* the row is rejected with a reason naming the amount.
C17_AmountParsing ==
    csvPhase = "done" =>
        \A k \in 1..Len(DictReader(csvIn)) :
            LET row == DictReader(csvIn)[k]
                d == RowDebit(row)
                c == RowCredit(row)
                cell == IF Present(d) THEN d ELSE c
                v == FloatVal(StripCurrency(cell))
            IN  (/\ Truthy(RowDate(row))
                 /\ ParsesIso(RowDate(row)) \/ ParsesUs(RowDate(row))
                 /\ ~(Present(d) /\ Present(c)))
                => IF (Present(d) \/ Present(c)) /\ FloatOk(StripCurrency(cell))
                   THEN /\ k \in KeptRows
                        /\ csvOut.written[Cardinality({j \in KeptRows : j <= k})].amount
                               = Format2f([neg |-> IF Present(d) THEN ~v.neg ELSE v.neg,
                                           mag |-> v.mag])
                   ELSE /\ k \notin KeptRows
                        /\ \E j \in 1..Len(csvOut.warnings) :
                              /\ csvOut.warnings[j].row = k
                              /\ csvOut.warnings[j].reason \in {"no amount", "invalid amount"}

(***************************************************************************)
(* Properties of the aggregation (analyze_data)                            *)
(***************************************************************************)

\* The brackets from the lowest to the highest.
BracketOrder == <<"low_income", "medium_income", "high_income">>

\* The name under which BENCHMARKS holds a benchmark, and its place in the
\* bracket order.
BracketOf(benchmark) == CHOOSE b \in DOMAIN BENCHMARKS : BENCHMARKS[b] = benchmark
Rank(benchmark) == CHOOSE i \in 1..Len(BracketOrder) : BracketOrder[i] = BracketOf(benchmark)

\* C18: benchmark selection is monotonic: of two consecutive selections, the
\* one made for the higher declared income is never the lower bracket.
C18_SelectionMonotonic ==
    (analysis.stage = "done" /\ prev.benchmark # NoBenchmark) =>
        /\ prev.income <= monthly_income
              => Rank(prev.benchmark) <= Rank(analysis.benchmark)
        /\ monthly_income <= prev.income
              => Rank(analysis.benchmark) <= Rank(prev.benchmark)

\* The income was raised from below the first threshold to between the two
\* and the selection moved from the lowest bracket to the middle one.
C18_Witness ==
    /\ analysis.stage = "done"
    /\ prev.benchmark = BENCHMARKS.low_income
    /\ prev.income < monthly_income
    /\ analysis.benchmark = BENCHMARKS.medium_income

\* The upper bounds of the brackets that have one, in the order they are
\* tested, and the bracket above the last bound.
Thresholds == <<[bracket |-> "low_income", upper |-> 50000],
                [bracket |-> "medium_income", upper |-> 100000]>>
TopBracket == "high_income"

RECURSIVE SumOver(_)
SumOver(f) ==
    IF DOMAIN f = {} THEN 0
    ELSE LET c == CHOOSE c \in DOMAIN f : TRUE
         IN  f[c] + SumOver([d \in DOMAIN f \ {c} |-> f[d]])

\* C20: the totals reconcile: the per-category expense totals add up to the
\* total expense, to the cent.
C20_TotalsReconcile ==
    analysis.stage = "done" =>
        SumOver(analysis.category_spending) = analysis.total_expenses

\* A frame with expenses in two categories, a refund and a salary.
C20_Witness ==
    /\ analysis.stage = "done"
    /\ processed_data = <<TxGas, TxFood, TxRefund>> \/ processed_data = <<TxGas, TxFood, TxSalary>>
    /\ DOMAIN analysis.category_spending = {"Transportation", "Groceries"}
    /\ analysis.total_expenses = 5234

\* C21: the total income reported is the declared monthly income times the
\* number of months observed, and the net savings are that total less the
\* total expense; the positive rows of the frame play no part.
C21_IncomeIsDeclared ==
    analysis.stage = "done" =>
        /\ analysis.total_income = 100 * monthly_income * analysis.months_count
        /\ analysis.net_savings =
               100 * monthly_income * analysis.months_count - analysis.total_expenses

\* C22: goal progress is a fraction between 0 and 1: net savings over the
\* goal, clamped, for a positive goal, and 1 for a goal of 0.
C22_ProgressIsClampedFraction ==
    analysis.stage = "done" =>
        LET p == analysis.progress
            net == analysis.net_savings
            goal == 100 * savings_goal
        IN  /\ p.kind = "num"
            /\ 0 <= p.num /\ p.num <= p.den
            /\ savings_goal = 0 => p.num = p.den
            /\ savings_goal > 0 =>
                  IF net <= 0 THEN p.num = 0
                  ELSE IF net >= goal THEN p.num = p.den
                  ELSE p.num = net /\ p.den = goal

\* C23: on a frame with no observed month the analysis is an explicit
\* no-data result and no figure is a quotient by the month count of zero.
C23_NoDataIsExplicit ==
    (show_analysis /\ months_count(processed_data) = 0) =>
        /\ analysis.stage = "nodata"
        /\ analysis.avg_income.den # 0
        /\ analysis.avg_spending.den # 0
        /\ analysis.avg_savings.den # 0

\* C24: the benchmark comparison has exactly one entry for every category of
\* the user's expenses or of the selected benchmark, with the user's
\* percentage (0 without spend), the benchmark's (0 without entry) and
\* their difference, user less benchmark.
C24_ComparisonCoversUnion ==
    analysis.stage = "done" =>
        LET comp == analysis.comp
            spending == analysis.category_spending
            total == analysis.total_expenses
            bench == analysis.benchmark
            cats == DOMAIN spending \cup DOMAIN bench
        IN  /\ {comp[i].category : i \in 1..Len(comp)} = cats
            /\ Len(comp) = Cardinality(cats)
            /\ \A i \in 1..Len(comp) :
                  LET c == comp[i].category
                      b == IF c \in DOMAIN bench THEN bench[c] ELSE 0
                  IN  /\ comp[i].Benchmark = b
                      /\ IF c \in DOMAIN spending
                         THEN /\ comp[i].You.num = 100 * spending[c]
                              /\ comp[i].You.den = total
                              /\ comp[i].Difference.num = 100 * spending[c] - b * total
                              /\ comp[i].Difference.den = total
                         ELSE /\ comp[i].You.num = 0
                              /\ comp[i].Difference.num = -b * comp[i].Difference.den
                              /\ comp[i].Difference.den > 0

\* A comparison with a category of the user alone (Groceries), one of both
\* (Transportation) and one of the benchmark alone (Housing).
C24_Witness ==
    /\ analysis.stage = "done"
    /\ DOMAIN analysis.category_spending = {"Groceries", "Transportation"}
    /\ \E i \in 1..Len(analysis.comp) :
          /\ analysis.comp[i].category = "Groceries"
          /\ analysis.comp[i].Benchmark = 0
          /\ analysis.comp[i].You.num > 0
    /\ \E i \in 1..Len(analysis.comp) :
          /\ analysis.comp[i].category = "Transportation"
          /\ analysis.comp[i].Benchmark > 0
          /\ analysis.comp[i].You.num > 0
    /\ \E i \in 1..Len(analysis.comp) :
          /\ analysis.comp[i].category = "Housing"
          /\ analysis.comp[i].You.num = 0
          /\ analysis.comp[i].Difference.num < 0

(***************************************************************************)
(* Properties of lambda_handler as written                                 *)
(***************************************************************************)

\* C25: lambda_handler never lets an exception out: an invocation in which
\* a statement raised has returned the 500 response, every invocation that
\* returned did so with 200 or 500, and with 200 only after the download,
\* the processing of at least one valid row, the upload, the copy and the
\* delete all went through.
C25_AlwaysAResponse ==
    \A i \in Invs :
        /\ failedAt[i] # "none" => pc[i] = "done" /\ result[i].statusCode = 500
        /\ pc[i] = "done" => result[i].statusCode \in {200, 500}
        /\ (pc[i] = "done" /\ result[i].statusCode = 200) =>
              /\ failedAt[i] = "none"
              /\ rows_processed[i] >= 1
              /\ LET key == SrcKey(event[i])
                 IN  ops[i] = <<[op |-> "download", key |-> key],
                                [op |-> "upload", key |-> DestKey(key)],
                                [op |-> "copy", key |-> ArchiveKey(key)],
                                [op |-> "delete", key |-> key]>>

\* One invocation returned 200 and another 500 after a statement raised.
C25_Witness ==
    \E i, j \in Invs :
        /\ pc[i] = "done" /\ result[i].statusCode = 200
        /\ pc[j] = "done" /\ result[j].statusCode = 500
        /\ failedAt[j] \in {"download", "upload", "copy", "delete", "cleanup"}

\* The statements of lambda_handler after its first try/except block: the
\* second download, CREATE TABLE IF NOT EXISTS, the inserts into
\* processed_transactions and the second archive_file call.
RdsStage == {"get_object", "create_table", "insert", "archive_again"}

\* C26: the relational-store stage is unreachable: no invocation is ever at
\* one of its statements, and every invocation that is over returned the
\* response of the first try/except block.
C26_RdsStageUnreachable ==
    \A i \in Invs :
        /\ pc[i] \notin RdsStage
        /\ pc[i] = "done" =>
              IF result[i].statusCode = 200
              THEN result[i] = SuccessResponse(SrcKey(event[i]), rows_processed[i])
              ELSE result[i] = ErrorResponse(event[i], result[i].body.error)

\* Two invocations are over, one through the return after the with block
\* and one through the except clause.
C26_Witness ==
    \E i, j \in Invs :
        /\ pc[i] = "done" /\ failedAt[i] = "none"
        /\ result[i] = SuccessResponse(SrcKey(event[i]), rows_processed[i])
        /\ pc[j] = "done" /\ failedAt[j] # "none"
        /\ result[j].statusCode = 500

\* An event that must fail validation: no 'Records', empty 'Records', a first
\* record without 's3', or a bucket other than SOURCE_BUCKET.
FailsValidation(ev) ==
    \/ "Records" \notin DOMAIN ev
    \/ ev.Records = <<>>
    \/ "s3" \notin DOMAIN ev.Records[1]
    \/ ev.Records[1].s3.bucket.name # SOURCE_BUCKET

\* C27: an invocation on an event that fails validation makes no S3 call on
\* an object, changes neither bucket, and returns 500.
C27_InvalidEventTouchesNothing ==
    /\ [](\A i \in Invs :
            (pc[i] # "idle" /\ FailsValidation(event[i])) =>
                /\ ops[i] = <<>>
                /\ pc[i] \in {"validate", "done", "crashed"}
                /\ pc[i] = "done" => result[i].statusCode = 500)
    /\ [][\A i \in Invs :
            (pc[i] # "idle" /\ FailsValidation(event[i]) /\ pc'[i] # pc[i]
               /\ event'[i] = event[i])
                => UNCHANGED <<srcBucket, destBucket>>]_vars

\* An event naming another bucket was answered with 500 and without an S3
\* call although the source bucket holds an object under its key.
C27_Witness ==
    \E i \in Invs :
        /\ event[i] = EventS3(OtherBucket, KeyPlain)
        /\ srcBucket[KeyPlain] # NoObject
        /\ pc[i] = "done"
        /\ failedAt[i] = "validate"
        /\ result[i].statusCode = 500
        /\ ops[i] = <<>>

\* A cell that holds more than white space.
NonBlank(cell) == Truthy(cell) /\ Strip(cell) # <<>>

\* The place in the processed file of source row k, when it was kept.
EmittedAt(k) == Cardinality({j \in KeptRows : j <= k})

\* C28: the outcome of a dated row with both a debit and a credit (neither
\* blank) is decided by the debit alone. If the debit reads as a number the
\* row is emitted with the negated debit as its amount, otherwise it is
\* skipped as an invalid amount; in neither case does the credit matter,
\* numeric or not.
C28_DebitWinsOverCredit ==
    csvPhase = "done" =>
        \A k \in 1..Len(DictReader(csvIn)) :
            LET row == DictReader(csvIn)[k]
                d == RowDebit(row)
                c == RowCredit(row)
            IN  (Truthy(RowDate(row)) /\ NonBlank(d) /\ NonBlank(c)) =>
                    IF FloatOk(Remove(d, ","))
                    THEN /\ k \in KeptRows
                         /\ csvOut.written[EmittedAt(k)].amount =
                               Format2f([neg |-> ~CellValue(d).neg,
                                         mag |-> CellValue(d).mag])
                    ELSE \E j \in 1..Len(csvOut.warnings) :
                            csvOut.warnings[j] = [row |-> k, reason |-> "invalid amount"]

\* A run that emitted -50.00 for a row with debit 50.00 and credit abc, and
\* -7.00 for a row with debit 7 and credit 20.00.
C28_Witness ==
    /\ csvPhase = "done"
    /\ csvIn.header = HeaderBank
    /\ csvIn.rows = <<RowBoth, RowBothNumeric>>
    /\ Len(csvOut.written) = 2
    /\ csvOut.written[1].amount = <<"-", "5", "0", ".", "0", "0">>
    /\ csvOut.written[2].amount = <<"-", "7", ".", "0", "0">>


(***************************************************************************)
(* Properties of wait_for_processing                                       *)
(***************************************************************************)

\* C29: wait_for_processing raises nothing and returns: True exactly when its
\* last check found the key, which ends the wait at once, and False only
\* when max_wait has elapsed without a check succeeding; a check that ends in
\* any error is followed by the sleep and the next test of the loop.
C29_WaitTerminates ==
    /\ [](waitPc # "raised")
    /\ [](waitPc = "returned" => (waitResult <=> lastCheck = "ok"))
    /\ [](lastCheck = "ok" => (waitPc = "returned" /\ waitResult))
    /\ []((waitPc = "returned" /\ ~waitResult) => elapsed >= max_wait)
    /\ [][(checks' = checks + 1 /\ lastCheck' # "ok") => waitPc' = "sleep"]_vars
    /\ [][(waitPc = "sleep" /\ waitPc' # waitPc) =>
             (waitPc' = "while" /\ elapsed' = elapsed + SleepSeconds)]_vars
    /\ <>(waitPc = "returned")

\* The wait returned True on a later check, after checks that failed.
C29_Witness ==
    /\ waitPc = "returned"
    /\ waitResult
    /\ checks >= 3
    /\ lastCheck = "ok"


(***************************************************************************)
(* get_processed_data and process_transactions                             *)
(***************************************************************************)

\* Missing values: NaN in a column of text, NaN in a column of floats, NaT
\* in a column of datetimes.
NaN      == <<"<NaN>">>
NaNFloat == [kind |-> "nan"]
NaT      == [kind |-> "NaT"]

\* pd.read_csv on a field of a text column: the empty field is read as NaN.
ReadText(cell) == IF cell = <<>> THEN NaN ELSE cell

\* pd.read_csv on a field of the amount column: a float where the field is
\* a number, NaN where it is empty, and the text otherwise.
ReadAmount(cell) ==
    IF cell = <<>> THEN NaNFloat
    ELSE IF FloatOk(cell) THEN [kind |-> "float", val |-> FloatVal(cell)]
    ELSE [kind |-> "str", val |-> cell]

\* get_processed_data(key): the processed file as a DataFrame; `index` is the
\* label of the row in the RangeIndex.
read_csv(written) ==
    [n \in 1..Len(written) |->
        [index |-> n - 1,
         date |-> ReadText(written[n].date),
         description |-> ReadText(written[n].description),
         amount |-> ReadAmount(written[n].amount),
         category |-> ReadText(written[n].category)]]

\* The format of a date string, for the forms YYYY-MM-DD and MM/DD/YYYY of
\* valid dates; "none" for a string no format reads.
DateFormat(s) ==
    IF /\ Len(s) = 10 /\ s[5] = "-" /\ s[8] = "-"
       /\ AllDigits(SubSeq(s, 1, 4)) /\ AllDigits(SubSeq(s, 6, 7)) /\ AllDigits(SubSeq(s, 9, 10))
       /\ DigitsVal(SubSeq(s, 6, 7)) \in 1..12 /\ DigitsVal(SubSeq(s, 9, 10)) \in 1..31
    THEN "%Y-%m-%d"
    ELSE IF /\ Len(s) = 10 /\ s[3] = "/" /\ s[6] = "/"
            /\ AllDigits(SubSeq(s, 1, 2)) /\ AllDigits(SubSeq(s, 4, 5)) /\ AllDigits(SubSeq(s, 7, 10))
            /\ DigitsVal(SubSeq(s, 1, 2)) \in 1..12 /\ DigitsVal(SubSeq(s, 4, 5)) \in 1..31
    THEN "%m/%d/%Y"
    ELSE "none"

\* The datetime a date string of one of the two formats stands for.
DateValue(s) ==
    IF DateFormat(s) = "%Y-%m-%d"
    THEN [kind |-> "date", y |-> DigitsVal(SubSeq(s, 1, 4)),
          m |-> DigitsVal(SubSeq(s, 6, 7)), d |-> DigitsVal(SubSeq(s, 9, 10))]
    ELSE [kind |-> "date", y |-> DigitsVal(SubSeq(s, 7, 10)),
          m |-> DigitsVal(SubSeq(s, 1, 2)), d |-> DigitsVal(SubSeq(s, 4, 5))]

\* pd.to_datetime(df['date']) with errors='raise': "raise" when a string is
\* no date; when the strings are dates of more than one format, pandas 2
\* raises (it takes the format of the first) and pandas 1 converts each, and
\* the repository pins no version.
to_datetime_outcomes(df) ==
    LET texts == {df[n].date : n \in 1..Len(df)} \ {NaN}
        formats == {DateFormat(t) : t \in texts}
    IN  IF "none" \in formats THEN {"raise"}
        ELSE IF Cardinality(formats) > 1 THEN {"raise", "converted"}
        ELSE {"converted"}

to_datetime(t) == IF t = NaN THEN NaT ELSE DateValue(t)

\* pd.to_numeric(errors='coerce') on one value.
to_numeric(a) ==
    IF a.kind = "float" THEN a
    ELSE IF a.kind = "str" /\ FloatOk(a.val) THEN [kind |-> "float", val |-> FloatVal(a.val)]
    ELSE NaNFloat

\* df.dropna(): the rows without a missing value in any column.
dropna(df) ==
    LET whole(r) == /\ r.date # NaT
                    /\ r.description # NaN
                    /\ r.amount # NaNFloat
                    /\ r.category # NaN
    IN  SelectSeq(df, whole)

\* A datetime as a number that orders as the datetimes do.
DateKey(d) == 10000 * d.y + 100 * d.m + d.d

\* df.sort_values('date'): the rows in ascending order of date; the default
\* quicksort promises no order among rows of equal date.
sort_values(df) ==
    LET n == Len(df)
        orders == {p \in [1..n -> 1..n] :
                     /\ \A a, b \in 1..n : a # b => p[a] # p[b]
                     /\ \A a \in 1..(n - 1) :
                           DateKey(df[p[a]].date) <= DateKey(df[p[a + 1]].date)}
    IN  {[a \in 1..n |-> df[p[a]]] : p \in orders}

\* process_transactions(df): the frames it can return, NoFrame for the None
\* it returns after st.error when a statement of the try block raised.
process_transactions(df) ==
    UNION {IF o = "raise" THEN {NoFrame}
           ELSE LET conv == [n \in 1..Len(df) |->
                               [df[n] EXCEPT !.date = to_datetime(@),
                                             !.amount = to_numeric(@)]]
                IN  {[ok |-> TRUE, rows |-> s] : s \in sort_values(dropna(conv))}
           : o \in to_datetime_outcomes(df)}

DateIsoEarly == <<"2", "0", "2", "4", "-", "0", "1", "-", "0", "3">>
RowEarly == <<DateIsoEarly, DescShell, <<>>, <<"9", ".", "5", "0">>, CatFood>>

\* The raw files whose processed form is handed on to the dashboard.
SampleUploadRows == {RowDebit50, RowEarly, RowCredit20, RowThousands, RowBadDate, RowNoAmount}

SampleUploads ==
    {[header |-> HeaderBank, rows |-> r] : r \in SeqsUpTo(SampleUploadRows, MaxRows)}

PtInit ==
    /\ HandlerInit
    /\ csvPhase = "input"
    /\ csvIn \in SampleUploads
    /\ csvOut = NoOutput
    /\ CatIdle
    /\ SessionInit
    /\ WaitIdle
    /\ ptPhase = "raw"
    /\ ptIn = <<>>
    /\ ptOut = NoFrame

\* df = get_processed_data(key), once the Lambda function has uploaded the
\* processed file, which it does for a batch that is not empty: the frame
\* read from it, or None after st.error when S3 or read_csv raised.
GetProcessedData ==
    /\ ptPhase = "raw"
    /\ csvPhase = "done"
    /\ csvOut.rows_processed > 0
    /\ \/ ptPhase' = "read" /\ ptIn' = read_csv(csvOut.written)
       \/ ptPhase' = "failed" /\ UNCHANGED ptIn
    /\ UNCHANGED ptOut
    /\ UNCHANGED <<hvars, cvars, kvars, avars, wvars>>

\* processed_df = process_transactions(df)
RunProcessTransactions ==
    /\ ptPhase = "read"
    /\ ptPhase' = "done"
    /\ ptOut' \in process_transactions(ptIn)
    /\ UNCHANGED ptIn
    /\ UNCHANGED <<hvars, cvars, kvars, avars, wvars>>

PtNext ==
    \/ RunProcessCsv
    \/ GetProcessedData
    \/ RunProcessTransactions

PtSpec == PtInit /\ [][PtNext]_vars

(***************************************************************************)
(* Properties of process_transactions                                      *)
(***************************************************************************)

\* A row of the frame read from the processed file with no value missing
\* and a numeric amount.
Complete(r) ==
    /\ r.date # NaN
    /\ r.description # NaN
    /\ r.category # NaN
    /\ r.amount.kind = "float"

\* C30: process_transactions returns the rows of its input whose date,
\* description, amount and category are all present and whose amount is
\* numeric, these and no others, in ascending order of date.
C30_KeepsCompleteRowsSorted ==
    ptPhase = "done" =>
        /\ ptOut.ok
        /\ {ptOut.rows[n].index : n \in 1..Len(ptOut.rows)} =
              {ptIn[n].index : n \in {k \in 1..Len(ptIn) : Complete(ptIn[k])}}
        /\ Len(ptOut.rows) = Cardinality({k \in 1..Len(ptIn) : Complete(ptIn[k])})
        /\ \A n \in 1..(Len(ptOut.rows) - 1) :
              DateKey(ptOut.rows[n].date) <= DateKey(ptOut.rows[n + 1].date)

=============================================================================
